---- MODULE Spec2Model ----
(***************************************************************************)
(* Ruggine chat server: the line-framed TCP command dispatcher             *)
(* (server/connection.rs), the message engine (server/messages.rs), the    *)
(* session checks they rely on and the WebSocket session check             *)
(* (server/websocket.rs).                                                  *)
(*                                                                         *)
(* Text.  A Rust String is modelled as a sequence of pieces; a piece is a  *)
(* TLA+ string that stands for a run of bytes.  Concatenation (format!,    *)
(* join, write_all after write_all) is \o.  The empty string is << >>.     *)
(* "\n" and the whitespace runs are pieces of their own, so that trim,     *)
(* split_whitespace, join and the framing of the wire into lines are       *)
(* computed and not assumed.  Every other piece is one whole word.         *)
(***************************************************************************)
EXTENDS Integers, Sequences, FiniteSets, TLC

(* ------------------------------ bounds -------------------------------- *)
\* the clock (chrono::Utc::now().timestamp()) takes the values 0..MaxTime
MaxTime == 1
\* rows ever inserted into encrypted_messages
MaxMsgs == 2
\* request lines a client may have in flight on one socket when it
\* pipelines, and when it waits for each response
MaxPending == 2
OnePending == 1
\* request lines a client writes on one connection: in the session
\* scenario, and in the chat scenarios
MaxReqs == 3
MaxChatReqs == 4
MaxRaceReqs == 2
MaxBridgeReqs == 2
MaxLengthReqs == 2
MaxStoreReqs == 3
MaxAcceptReqs == 2
MaxClientCmds == 3
MaxPollOpens == 2
MaxPollSends == 2
\* consecutive failures of the Redis subscriber that are followed
MaxRetries == 3
\* frames a caller of send_to_user / send_to_group may pile up on one
\* outbound queue
MaxQueue == 1

(* --------------------------- text helpers ----------------------------- *)
NL == "\n"
SP == " "
WhiteSpace == {" ", "  ", "\t", "\n"}

IsWs(p) == p \in WhiteSpace

RECURSIVE trim_start(_)
trim_start(s) ==
  IF s = << >> THEN << >>
  ELSE IF IsWs(Head(s)) THEN trim_start(Tail(s)) ELSE s

RECURSIVE trim_end(_)
trim_end(s) ==
  IF s = << >> THEN << >>
  ELSE IF IsWs(s[Len(s)]) THEN trim_end(SubSeq(s, 1, Len(s) - 1)) ELSE s

\* str::trim
trim(s) == trim_end(trim_start(s))

\* str::split_whitespace, collected: the words of s
split_whitespace(s) == SelectSeq(s, LAMBDA p : ~IsWs(p))

\* [word].join(sep): a String
RECURSIVE join(_, _)
join(words, sep) ==
  IF words = << >> THEN << >>
  ELSE IF Len(words) = 1 THEN <<words[1]>>
  ELSE <<words[1], sep>> \o join(Tail(words), sep)

\* [String].join(sep) for elements that are Strings themselves
RECURSIVE join_strings(_, _)
join_strings(strs, sep) ==
  IF strs = << >> THEN << >>
  ELSE IF Len(strs) = 1 THEN strs[1]
  ELSE strs[1] \o <<sep>> \o join_strings(Tail(strs), sep)

\* the lines of a byte stream: every "\n" ends one line (BufRead::lines
\* on the receiving side); bytes after the last "\n" are not a line yet
RECURSIVE wire_lines(_, _)
wire_lines(bytes, acc) ==
  IF bytes = << >> THEN << >>
  ELSE IF Head(bytes) = NL THEN <<acc>> \o wire_lines(Tail(bytes), << >>)
  ELSE wire_lines(Tail(bytes), Append(acc, Head(bytes)))

WireLines(bytes) == wire_lines(bytes, << >>)

\* byte length of one piece of the model's vocabulary
PieceLen(p) ==
  CASE p = "hi" -> 2
    [] p = "yo" -> 2
    [] p = "42" -> 2
    [] p = "{}" -> 2
    [] p = "aaaaaaaaa" -> 9
    [] p = "aaaaaaaa" -> 8
    [] p = " " -> 1
    [] p = "  " -> 2
    [] p = "\t" -> 1
    [] p = "abc" -> 3
    [] OTHER -> 9

\* str::len (bytes)
RECURSIVE ByteLen(_)
ByteLen(s) == IF s = << >> THEN 0 ELSE PieceLen(Head(s)) + ByteLen(Tail(s))

(* -------------------------- the vocabulary ---------------------------- *)
\* users table (id, username): the registered users; never deleted (the
\* core has no user deletion)
Users == {"u1", "u2", "u3"}

Username(u) ==
  CASE u = "u1" -> "alice"
    [] u = "u2" -> "bob"
    [] u = "u3" -> "carol"

\* a username that no row of users carries
NoSuchUser == "dave"

\* String order on the user ids ("u1" < "u2" < "u3"), as Vec<String>::sort
IdRank(u) ==
  CASE u = "u1" -> 1
    [] u = "u2" -> 2
    [] u = "u3" -> 3

\* groups table (id): the existing groups; a group is never deleted
Groups == {"g1"}

\* a group id that no row of groups carries
NoSuchGroup == "g9"

\* session tokens the login issues, in the order it issues them
IssuableTokens == <<"session-A", "session-B">>

\* a well-formed token that was never issued, and a token shorter than
\* eight bytes
ForgedToken == "session-X"
ShortToken == "abc"

TokenInputs ==
  {IssuableTokens[i] : i \in 1..Len(IssuableTokens)} \cup {ForgedToken, ShortToken}

\* config.max_message_length
max_message_length == 8

\* config.session_ttl, in clock ticks
session_ttl == 1

(* ------------------------------ state --------------------------------- *)
VARIABLES
  now,                \* the wall clock, in seconds
  enable_encryption,  \* config.enable_encryption
  encryption_master_key,  \* config.encryption_master_key
  sessions,           \* table sessions: {[session_token, user_id, expires_at]}
  issued,             \* number of tokens the login has issued
  members,            \* table group_members: {<<group_id, user_id>>}
  msgs,               \* table encrypted_messages, a sequence of rows
  next_id,            \* the next rowid of encrypted_messages
  inq,                \* per connection: request lines written by the peer, unread
  eof,                \* per connection: the peer has closed its sending side
  pc,                 \* per connection: where the connection task stands
  cur,                \* per connection: the line in the buffer and its command
  loc,                \* per connection: locals kept across a suspension
  wire,               \* per connection: the bytes of the last flushed response
  sent_blank,         \* per connection: for each line the peer wrote, is it blank
  nread,              \* per connection: number of lines the server has read
  resp_tags,          \* per connection: the lines answered (by position), in write order
  logged_out,         \* history: the tokens a /logout has answered OK for
  ws_token,           \* the token of the last WebSocket auth message
  ws_result,          \* what authenticate_session did with it
  ws_state,           \* per WebSocket: where its handler stands
  auth_event,         \* per WebSocket: what the handler got while awaiting auth
  auth_response,      \* per WebSocket: the auth_response sent on it, if any
  ws_in,              \* per WebSocket: frames the peer sent, not yet received
  peer_gone,          \* per WebSocket: the peer has closed its end
  recv_running,       \* per WebSocket: its receive_task is alive
  send_running,       \* per WebSocket: its send_task is alive
  connections,        \* registry client_id -> connection: {[client_id, user_id]}
  user_connections,   \* registry user_id -> client_id: {<<user_id, client_id>>}
  outq,               \* per client_id: the frames on its outbound queue (rx)
  sub_inbox,          \* Redis messages delivered to the subscriber, unhandled
  pub_log,            \* history: every (channel, message) PUBLISHed
  redis_sub,          \* the Redis subscriber task: where it stands, waits so far
  ws_client,          \* the client's WebSocketClient and its connect_with_auth call
  reaper,             \* the session cleanup task spawned by main
  listener,           \* the accept loop of Server::run and the tasks it spawned
  hub_locks,          \* the two registry mutexes: owner, and each task's job and locks
  chat_service,       \* the client's ChatService: its queue, its task, its connection
  polling             \* the client's message polling: chains, cache, messages in flight

storeVars == <<sessions, issued, members, msgs, next_id>>
connVars == <<inq, eof, pc, cur, loc, wire, sent_blank, nread, resp_tags, logged_out>>
hubVars == <<ws_state, auth_event, auth_response, ws_in, peer_gone, recv_running, send_running,
             connections, user_connections, outq, sub_inbox, pub_log>>
wsVars == <<ws_token, ws_result, hubVars>>
\* the configuration the server process read from its environment
configVars == <<enable_encryption, encryption_master_key>>
\* the background tasks of the server, and the client's reconnecting socket
clientVars == <<chat_service, polling>>
taskVars == <<redis_sub, ws_client, reaper, listener, hub_locks, clientVars>>
vars == <<now, configVars, taskVars, storeVars, connVars, wsVars>>

Conns == {"c1", "c2"}

\* the WebSocket connections accepted; each gets a client id of its own
\* (Uuid::new_v4), for which the name of the socket stands
Sockets == {"w1", "w2"}

(* ----------------------------- Option --------------------------------- *)
Some(v) == [tag |-> "Some", val |-> v]
None == [tag |-> "None", val |-> ""]
Panicked == [tag |-> "Panic", val |-> ""]

(* ------------------- sessions (auth module, server) -------------------- *)
\* auth::validate_session: Some(user_id) iff a row with the token exists
\* and expires_at > now
validate_session(session_token) ==
  LET rows == {s \in sessions :
                 s.session_token = session_token /\ s.expires_at > now}
  IN IF rows = {} THEN None ELSE Some((CHOOSE s \in rows : TRUE).user_id)

\* websocket.rs authenticate_session: the log line slices the first eight
\* bytes of the token (&session_token[..8]) before the query is made
authenticate_session(session_token) ==
  IF ByteLen(<<session_token>>) < 8 THEN Panicked
  ELSE LET rows == {s \in sessions :
                      s.session_token = session_token /\ s.expires_at > now}
       IN IF rows = {} THEN None ELSE Some((CHOOSE s \in rows : TRUE).user_id)

(* ------------------------- users, chat ids ----------------------------- *)
\* SELECT id FROM users WHERE username = ?
user_by_name(name) ==
  LET rows == {u \in Users : Username(u) = name}
  IN IF rows = {} THEN None ELSE Some(CHOOSE u \in rows : TRUE)

\* SELECT username FROM users WHERE id = ?
name_by_id(id) == IF id \in Users THEN Some(Username(id)) ELSE None

\* the two ids in the order caller, peer, without the sort
unsorted_ids(a, b) == <<a, b>>

\* let mut ids = vec![a, b]; ids.sort();
sorted_ids(a, b) == IF IdRank(a) <= IdRank(b) THEN <<a, b>> ELSE <<b, a>>

\* format!("private:{}-{}", ids[0], ids[1])
private_chat_id(ids) == <<"private:", ids[1], "-", ids[2]>>

\* format!("group:{}", group_id)
group_chat_id(group_id) == <<"group:", group_id>>

\* SELECT user_id FROM group_members WHERE group_id = ?
group_members_of(group_id) == {m[2] : m \in {x \in members : x[1] = group_id}}

\* SELECT 1 FROM group_members WHERE group_id = ? AND user_id = ?
is_member(group_id, user_id) == <<group_id, user_id>> \in members

(* ------------------------------ crypto -------------------------------- *)
\* CryptoManager::generate_chat_key: deterministic over the set of
\* participants (it sorts them) and the master key
generate_chat_key(participants) == <<participants, encryption_master_key>>

Ok(v) == [ok |-> TRUE, val |-> v]
Err(v) == [ok |-> FALSE, val |-> v]

\* the message column: a plain string, or the JSON envelope
\* {"ciphertext": .., "nonce": ..} of a text under a key
PlainColumn(text) == [kind |-> "plain", text |-> text, key |-> <<{}, "">>]
EnvelopeColumn(text, key) == [kind |-> "envelope", text |-> text, key |-> key]

\* the column as the string that is stored
raw_column(col) ==
  IF col.kind = "plain" THEN col.text ELSE <<"{\"ciphertext\":..,\"nonce\":..}">>

encrypt_message_for_storage(message, chat_participants) ==
  IF ~enable_encryption THEN Ok(PlainColumn(message))
  ELSE Ok(EnvelopeColumn(message, generate_chat_key(chat_participants)))

\* serde_json::from_str::<serde_json::Value>(s).is_ok() for a stored plain
\* string: of the words of the vocabulary, 42 and {} are JSON texts
is_json(s) == s \in {<<"42">>, <<"{}">>}

\* with encryption on: a column that parses as JSON must carry the strings
\* ciphertext and nonce (else Err "Missing ciphertext") and decrypt under
\* the key of the participants; a column that is not JSON is returned as is
decrypt_message_from_storage(col, chat_participants) ==
  IF ~enable_encryption THEN Ok(raw_column(col))
  ELSE IF col.kind = "envelope"
       THEN IF col.key = generate_chat_key(chat_participants)
            THEN Ok(col.text)
            ELSE Err(<<"Decryption failed">>)
       ELSE IF is_json(col.text) THEN Err(<<"Missing ciphertext">>)
       ELSE Ok(col.text)

(* ------------------ message engine (server/messages.rs) ---------------- *)
\* what an operation hands back: the response and the tables as it leaves them
NoCont == [go |-> FALSE, user_id |-> "", group_id |-> "", message |-> << >>]

Reply(resp) ==
  [resp |-> resp, sessions |-> sessions, issued |-> issued, members |-> members,
   msgs |-> msgs, next_id |-> next_id, cont |-> NoCont]

\* an INSERT that is executed twice
insert_message_twice(chat_id, sender_id, column, sent_at) ==
  LET row == [id |-> next_id, chat_id |-> chat_id, sender_id |-> sender_id,
              message |-> column, sent_at |-> sent_at]
  IN msgs \o <<row, row>>

\* INSERT INTO encrypted_messages (chat_id, sender_id, message, sent_at)
insert_message(chat_id, sender_id, column, sent_at) ==
  Append(msgs, [id |-> next_id, chat_id |-> chat_id, sender_id |-> sender_id,
                message |-> column, sent_at |-> sent_at])

\* a DELETE that leaves out the WHERE clause
delete_every_chat(chat_id) == << >>

\* DELETE FROM encrypted_messages WHERE chat_id = ?
delete_chat(chat_id) == SelectSeq(msgs, LAMBDA r : r.chat_id # chat_id)

\* The orders in which the engine may hand back rows whose ORDER BY keys
\* are equal: SQL leaves that order unspecified.  A tie-break ranks the
\* stored rows (by position in the table).
TieBreaks ==
  {f \in [1..Len(msgs) -> 1..Len(msgs)] :
     \A i, j \in 1..Len(msgs) : f[i] = f[j] => i = j}

RECURSIVE order_rows(_, _)
order_rows(S, tb) ==
  IF S = {} THEN << >>
  ELSE LET first == CHOOSE i \in S : \A j \in S :
                      \/ msgs[i].sent_at < msgs[j].sent_at
                      \/ msgs[i].sent_at = msgs[j].sent_at /\ tb[i] <= tb[j]
       IN <<msgs[first]>> \o order_rows(S \ {first}, tb)

\* SELECT sender_id, message, sent_at FROM encrypted_messages
\*   WHERE chat_id = ? ORDER BY sent_at ASC
select_chat_rows(chat_id, tb) ==
  order_rows({i \in 1..Len(msgs) : msgs[i].chat_id = chat_id}, tb)

\* format!("[{}] {}: {}", ts, sender_name, clear)
message_line(ts, sender_name, clear) ==
  <<"[", ToString(ts), "] ", sender_name, ": ">> \o clear

\* format!("OK: Messages:\n{}", msgs.join("\n"))
messages_response(lines) == <<"OK: Messages:", NL>> \o join_strings(lines, NL)

too_long_response ==
  <<"ERR: Message too long (max ", ToString(max_message_length), " chars)">>

\* send_group_message up to and including the membership query: the
\* response when it returns early, otherwise the locals it goes on with
send_group_check(session_token, group_name, message) ==
  IF ByteLen(message) > max_message_length
  THEN [done |-> TRUE, resp |-> too_long_response, user_id |-> "", group_id |-> ""]
  ELSE LET v == validate_session(session_token) IN
    IF v = None
    THEN [done |-> TRUE, resp |-> <<"ERR: Invalid session">>,
          user_id |-> "", group_id |-> ""]
    ELSE IF group_name \notin Groups
    THEN [done |-> TRUE, resp |-> <<"ERR: Group not found">>,
          user_id |-> "", group_id |-> ""]
    ELSE IF ~is_member(group_name, v.val)
    THEN [done |-> TRUE, resp |-> <<"ERR: Not a group member">>,
          user_id |-> "", group_id |-> ""]
    ELSE [done |-> FALSE, resp |-> << >>, user_id |-> v.val, group_id |-> group_name]

\* send_group_message from the members query on: key derivation over the
\* members read now, encryption, the INSERT
send_group_insert(user_id, group_id, message) ==
  LET group_members == group_members_of(group_id)
      encrypted == encrypt_message_for_storage(message, group_members)
  IN [Reply(<<"OK: Message sent">>) EXCEPT
        !.msgs = insert_message(group_chat_id(group_id), user_id, encrypted.val, now),
        !.next_id = next_id + 1]

send_private_message(session_token, to_username, message) ==
  IF ByteLen(message) > max_message_length THEN Reply(too_long_response)
  ELSE LET v == validate_session(session_token) IN
    IF v = None THEN Reply(<<"ERR: Invalid session">>)
    ELSE LET to == user_by_name(to_username) IN
      IF to = None THEN Reply(<<"ERR: User not found">>)
      ELSE LET ids == sorted_ids(v.val, to.val)
               encrypted == encrypt_message_for_storage(message, {ids[1], ids[2]})
           IN [Reply(<<"OK: Message sent">>) EXCEPT
                 !.msgs = insert_message(private_chat_id(ids), v.val, encrypted.val, now),
                 !.next_id = next_id + 1]

\* a group read that leaves out the membership check
get_group_messages_no_member_check(session_token, group_name, tb) ==
  LET v == validate_session(session_token) IN
  IF v = None THEN Reply(<<"ERR: Invalid session">>)
  ELSE IF group_name \notin Groups THEN Reply(<<"ERR: Group not found">>)
  ELSE LET rows == select_chat_rows(group_chat_id(group_name), tb)
           group_members == group_members_of(group_name)
           line(r) ==
             LET n == name_by_id(r.sender_id)
                 sender_name == IF n = None THEN r.sender_id ELSE n.val
                 d == decrypt_message_from_storage(r.message, group_members)
                 clear == IF d.ok THEN d.val ELSE <<"[DECRYPTION FAILED]">>
             IN message_line(r.sent_at, sender_name, clear)
       IN Reply(messages_response([i \in 1..Len(rows) |-> line(rows[i])]))

get_group_messages(session_token, group_name, tb) ==
  LET v == validate_session(session_token) IN
  IF v = None THEN Reply(<<"ERR: Invalid session">>)
  ELSE IF group_name \notin Groups THEN Reply(<<"ERR: Group not found">>)
  ELSE IF ~is_member(group_name, v.val) THEN Reply(<<"ERR: Not a group member">>)
  ELSE LET rows == select_chat_rows(group_chat_id(group_name), tb)
           group_members == group_members_of(group_name)
           line(r) ==
             LET n == name_by_id(r.sender_id)
                 sender_name == IF n = None THEN r.sender_id ELSE n.val
                 d == decrypt_message_from_storage(r.message, group_members)
                 clear == IF d.ok THEN d.val ELSE <<"[DECRYPTION FAILED]">>
             IN message_line(r.sent_at, sender_name, clear)
       IN Reply(messages_response([i \in 1..Len(rows) |-> line(rows[i])]))

\* a private read that shows the peer's name on every line
get_private_messages_peer_name(session_token, other_username, tb) ==
  LET v == validate_session(session_token) IN
  IF v = None THEN Reply(<<"ERR: Invalid session">>)
  ELSE LET to == user_by_name(other_username) IN
    IF to = None THEN Reply(<<"ERR: User not found">>)
    ELSE LET ids == sorted_ids(v.val, to.val)
             rows == select_chat_rows(private_chat_id(ids), tb)
             line(r) ==
               LET d == decrypt_message_from_storage(r.message, {ids[1], ids[2]})
                   clear == IF d.ok THEN d.val ELSE raw_column(r.message)
               IN message_line(r.sent_at, other_username, clear)
         IN Reply(messages_response([i \in 1..Len(rows) |-> line(rows[i])]))

get_private_messages(session_token, other_username, tb) ==
  LET v == validate_session(session_token) IN
  IF v = None THEN Reply(<<"ERR: Invalid session">>)
  ELSE LET n == name_by_id(v.val)
           my_username == IF n = None THEN "Unknown" ELSE n.val
           to == user_by_name(other_username)
       IN
    IF to = None THEN Reply(<<"ERR: User not found">>)
    ELSE LET ids == sorted_ids(v.val, to.val)
             rows == select_chat_rows(private_chat_id(ids), tb)
             line(r) ==
               LET sender_name == IF r.sender_id = v.val THEN my_username
                                  ELSE other_username
                   d == decrypt_message_from_storage(r.message, {ids[1], ids[2]})
                   clear == IF d.ok THEN d.val ELSE raw_column(r.message)
               IN message_line(r.sent_at, sender_name, clear)
         IN Reply(messages_response([i \in 1..Len(rows) |-> line(rows[i])]))

delete_group_messages(session_token, group_id) ==
  LET v == validate_session(session_token) IN
  IF v = None THEN Reply(<<"ERR: Invalid session">>)
  ELSE IF ~is_member(group_id, v.val) THEN Reply(<<"ERR: Not a group member">>)
  ELSE [Reply(<<"OK: Messages deleted">>) EXCEPT
          !.msgs = delete_chat(group_chat_id(group_id))]

delete_private_messages(session_token, other_username) ==
  LET v == validate_session(session_token) IN
  IF v = None THEN Reply(<<"ERR: Invalid session">>)
  ELSE LET to == user_by_name(other_username) IN
    IF to = None THEN Reply(<<"ERR: User not found">>)
    ELSE [Reply(<<"OK: Messages deleted">>) EXCEPT
            !.msgs = delete_chat(private_chat_id(sorted_ids(v.val, to.val)))]

(* -------- operations of the auth, groups and users modules ------------- *)
\* auth::logout: deletes the session row of the token
auth_logout(session_token) ==
  IF \E s \in sessions : s.session_token = session_token
  THEN [Reply(<<"OK: Logged out">>) EXCEPT
          !.sessions = {s \in sessions : s.session_token # session_token}]
  ELSE Reply(<<"ERR: Invalid or expired session">>)

\* the password every user registered with
Password(u) == "pw123456"

\* auth::login: verifies the credential and inserts a session with a token
\* never issued before and expires_at = now + session_ttl
auth_login(username, password) ==
  LET u == user_by_name(username) IN
  IF u = None \/ password # Password(u.val) THEN Reply(<<"ERR: Invalid credentials">>)
  ELSE LET token == IssuableTokens[issued + 1] IN
       [Reply(<<"OK: Logged in SESSION:", token>>) EXCEPT
          !.sessions = sessions \cup {[session_token |-> token, user_id |-> u.val,
                                       expires_at |-> now + session_ttl]},
          !.issued = issued + 1]

\* groups::join_group / groups::leave_group: insert / delete the
\* group_members row of (group, user)
groups_join_group(user_id, group_id) ==
  IF group_id \notin Groups THEN Reply(<<"ERR: Group not found">>)
  ELSE [Reply(<<"OK: Joined group">>) EXCEPT
          !.members = members \cup {<<group_id, user_id>>}]

groups_leave_group(user_id, group_id) ==
  [Reply(<<"OK: Left group">>) EXCEPT !.members = members \ {<<group_id, user_id>>}]

\* the reply of an operation of users.rs / groups.rs / auth.rs that this
\* model does not look into; it changes none of the tables modelled here
module_reply(op) == Reply(<<"<reply of ", op, ">">>)

(* -------------- dispatcher (Server::handle_command) -------------------- *)
invalid_session == <<"ERR: Invalid or expired session">>
unknown_command == <<"ERR: Unknown or invalid command">>

\* the arms of the form
\*   if let Some(uid) = auth::validate_session(..) { op(uid, ..) }
\*   else { "ERR: Invalid or expired session" }
with_session(session_token, op) ==
  IF validate_session(session_token) = None THEN Reply(invalid_session)
  ELSE module_reply(op)

\* a /logout arm that answers without calling auth::logout
cmd_logout_no_delete(args) ==
  IF validate_session(args[1]) = None THEN Reply(invalid_session)
  ELSE Reply(<<"OK: Logged out">>)

\* "/logout" if args.len() == 1
cmd_logout(args) == auth_logout(args[1])

\* "/validate_session" if args.len() == 1
cmd_validate_session(args) ==
  LET v == validate_session(args[1]) IN
  IF v = None THEN Reply(invalid_session)
  ELSE LET n == name_by_id(v.val) IN
       IF n = None THEN Reply(<<"ERR: User not found">>)
       ELSE Reply(<<"OK: ", n.val>>)

\* "/join_group" | "/leave_group" if args.len() == 2
cmd_join_group(args) ==
  LET v == validate_session(args[1]) IN
  IF v = None THEN Reply(invalid_session) ELSE groups_join_group(v.val, args[2])

cmd_leave_group(args) ==
  LET v == validate_session(args[1]) IN
  IF v = None THEN Reply(invalid_session) ELSE groups_leave_group(v.val, args[2])

\* "/send" if args.len() >= 3: send_group_message, which this model runs in
\* two steps (up to the membership query, and from the members query on)
cmd_send(args) ==
  LET message == join(SubSeq(args, 3, Len(args)), SP)
      ck == send_group_check(args[1], args[2], message)
  IN IF ck.done THEN Reply(ck.resp)
     ELSE [Reply(<< >>) EXCEPT
             !.cont = [go |-> TRUE, user_id |-> ck.user_id,
                       group_id |-> ck.group_id, message |-> message]]

\* "/send_private" | "/private" if args.len() >= 3
cmd_send_private(args) ==
  send_private_message(args[1], args[2], join(SubSeq(args, 3, Len(args)), SP))

handle_command(cmd, args, tb) ==
  LET n == Len(args) IN
  CASE cmd = "/send_friend_request" /\ n >= 2 ->
         with_session(args[1], "users::send_friend_request")
    [] cmd = "/accept_friend_request" /\ n = 2 ->
         with_session(args[1], "users::accept_friend_request")
    [] cmd = "/reject_friend_request" /\ n = 2 ->
         with_session(args[1], "users::reject_friend_request")
    [] cmd = "/list_friends" /\ n = 1 -> with_session(args[1], "users::list_friends")
    [] cmd = "/received_friend_requests" /\ n = 1 ->
         with_session(args[1], "users::received_friend_requests")
    [] cmd = "/sent_friend_requests" /\ n = 1 ->
         with_session(args[1], "users::sent_friend_requests")
    [] cmd = "/help" -> module_reply("users::help")
    [] cmd = "/quit" -> Reply(<<"OK: Disconnected">>)
    [] cmd = "/logout" /\ n = 1 -> cmd_logout(args)
    [] cmd = "/validate_session" /\ n = 1 -> cmd_validate_session(args)
    [] cmd = "/register" /\ n = 2 -> module_reply("auth::register")
    [] cmd = "/login" /\ n = 2 -> auth_login(args[1], args[2])
    [] cmd = "/users" -> module_reply("users::list_online")
    [] cmd = "/all_users" -> module_reply("users::list_all")
    [] cmd = "/create_group" /\ n = 2 -> with_session(args[1], "groups::create_group")
    [] cmd = "/my_groups" /\ n = 1 -> with_session(args[1], "groups::my_groups")
    [] cmd = "/invite" /\ n = 3 -> with_session(args[1], "groups::invite")
    [] cmd = "/accept_invite" /\ n = 2 -> with_session(args[1], "groups::accept_invite")
    [] cmd = "/reject_invite" /\ n = 2 -> with_session(args[1], "groups::reject_invite")
    [] cmd = "/my_invites" /\ n = 1 -> with_session(args[1], "groups::my_invites")
    [] cmd = "/join_group" /\ n = 2 -> cmd_join_group(args)
    [] cmd = "/leave_group" /\ n = 2 -> cmd_leave_group(args)
    [] cmd = "/send" /\ n >= 3 -> cmd_send(args)
    [] cmd \in {"/send_private", "/private"} /\ n >= 3 -> cmd_send_private(args)
    [] cmd = "/get_group_messages" /\ n = 2 -> get_group_messages(args[1], args[2], tb)
    [] cmd = "/get_private_messages" /\ n = 2 ->
         get_private_messages(args[1], args[2], tb)
    [] cmd = "/delete_group_messages" /\ n = 2 ->
         delete_group_messages(args[1], args[2])
    [] cmd = "/delete_private_messages" /\ n = 2 ->
         delete_private_messages(args[1], args[2])
    [] OTHER -> Reply(unknown_command)

(* ------------- connection task (handle_client, handle_tls_client) ------ *)
NoCommand == [cmd |-> "", args |-> << >>, tag |-> 0, line |-> << >>]

\* a request line as the peer writes it: the words, single-spaced, and "\n"
Line(words) == join(words, SP) \o <<NL>>

\* the line has no byte that is not whitespace
Blank(text) == \A i \in 1..Len(text) : IsWs(text[i])

IsLogin(text) == split_whitespace(text) # << >> /\ split_whitespace(text)[1] = "/login"

\* logins the peers have written and the server has not finished
LoginsPending ==
  Cardinality({<<c, i>> \in Conns \X (1..MaxPending + 1) :
                 i <= Len(inq[c]) /\ IsLogin(inq[c][i].text)})
  + Cardinality({c \in Conns : pc[c] = "dispatch" /\ cur[c].cmd = "/login"})

\* the peer writes one more line on its socket
ClientWrite(c, text, cap, reqs) ==
  /\ ~eof[c]
  /\ Len(inq[c]) < cap
  /\ Len(sent_blank[c]) < reqs
  /\ IsLogin(text) => issued + LoginsPending < Len(IssuableTokens)
  /\ inq' = [inq EXCEPT ![c] = Append(@, [tag |-> Len(sent_blank[c]) + 1, text |-> text])]
  /\ sent_blank' = [sent_blank EXCEPT ![c] = Append(@, Blank(text))]
  /\ UNCHANGED <<now, configVars, taskVars, storeVars, wsVars,
                 eof, pc, cur, loc, wire, nread, resp_tags, logged_out>>

\* the peer closes its sending side
ClientClose(c) ==
  /\ ~eof[c]
  /\ eof' = [eof EXCEPT ![c] = TRUE]
  /\ UNCHANGED <<now, configVars, taskVars, storeVars, wsVars,
                 inq, pc, cur, loc, wire, sent_blank, nread, resp_tags, logged_out>>

\* a read loop without the continue on an empty line
skip_line_never(trimmed) == FALSE

\* if trimmed.is_empty() { continue; }
skip_line(trimmed) == trimmed = << >>

\* read_line returned a line: trim, skip if empty, else split into the
\* command and its arguments
ReadLine(c) ==
  /\ pc[c] = "read"
  /\ inq[c] # << >>
  /\ LET line == Head(inq[c])
         trimmed == trim(line.text)
         parts == split_whitespace(trimmed)
     IN /\ inq' = [inq EXCEPT ![c] = Tail(@)]
        /\ nread' = [nread EXCEPT ![c] = @ + 1]
        /\ IF skip_line(trimmed)
           THEN UNCHANGED <<pc, cur>>
           ELSE /\ pc' = [pc EXCEPT ![c] = "dispatch"]
                /\ cur' = [cur EXCEPT ![c] =
                     [cmd |-> IF parts = << >> THEN "" ELSE parts[1],
                      args |-> IF parts = << >> THEN << >> ELSE Tail(parts),
                      tag |-> line.tag, line |-> line.text]]
  /\ UNCHANGED <<now, configVars, taskVars, storeVars, wsVars,
                 eof, loc, wire, sent_blank, resp_tags, logged_out>>

\* read_line returned 0: the peer is gone, the task ends
ReadEof(c) ==
  /\ pc[c] = "read"
  /\ inq[c] = << >>
  /\ eof[c]
  /\ pc' = [pc EXCEPT ![c] = "done"]
  /\ UNCHANGED <<now, configVars, taskVars, storeVars, wsVars,
                 inq, eof, cur, loc, wire, sent_blank, nread, resp_tags, logged_out>>

\* writer.write_all(response); writer.write_all(b"\n"); writer.flush()
Flush(c, resp) ==
  /\ wire' = [wire EXCEPT ![c] = resp \o <<NL>>]
  /\ resp_tags' = [resp_tags EXCEPT ![c] = Append(@, cur[c].tag)]
  /\ pc' = [pc EXCEPT ![c] = "read"]

\* server.handle_command(cmd, &args).await and the write of its response;
\* a group send that passed its checks is suspended before its INSERT
Dispatch(c) ==
  /\ pc[c] = "dispatch"
  /\ (cur[c].cmd = "/login" /\ Len(cur[c].args) = 2) => issued < Len(IssuableTokens)
  /\ \E tb \in TieBreaks :
       LET r == handle_command(cur[c].cmd, cur[c].args, tb) IN
       /\ r.next_id <= MaxMsgs + 1
       /\ IF r.cont.go
          THEN /\ pc' = [pc EXCEPT ![c] = "insert"]
               /\ loc' = [loc EXCEPT ![c] = r.cont]
               /\ UNCHANGED <<storeVars, wire, resp_tags, logged_out>>
          ELSE /\ Flush(c, r.resp)
               /\ logged_out' =
                    IF cur[c].cmd = "/logout" /\ Len(cur[c].args) = 1
                       /\ r.resp = <<"OK: Logged out">>
                    THEN logged_out \cup {cur[c].args[1]} ELSE logged_out
               /\ sessions' = r.sessions
               /\ issued' = r.issued
               /\ members' = r.members
               /\ msgs' = r.msgs
               /\ next_id' = r.next_id
               /\ UNCHANGED loc
  /\ UNCHANGED <<now, configVars, taskVars, wsVars, inq, eof, cur, sent_blank, nread>>

\* the rest of send_group_message, after the suspension
InsertStep(c) ==
  /\ pc[c] = "insert"
  /\ next_id <= MaxMsgs
  /\ LET r == send_group_insert(loc[c].user_id, loc[c].group_id, loc[c].message) IN
       /\ Flush(c, r.resp)
       /\ msgs' = r.msgs
       /\ next_id' = r.next_id
  /\ loc' = [loc EXCEPT ![c] = NoCont]
  /\ UNCHANGED <<now, configVars, taskVars, wsVars, sessions, issued, members,
                 inq, eof, cur, sent_blank, nread, logged_out>>

(* ------------------- WebSocket authentication -------------------------- *)
\* handle_authenticated_connection has the auth message and validates its
\* session token
WsAuth(session_token) ==
  /\ ws_token' = session_token
  /\ ws_result' = authenticate_session(session_token)
  /\ UNCHANGED <<now, configVars, taskVars, storeVars, connVars, hubVars>>

(* ------------- real-time hub (server/websocket.rs) --------------------- *)
\* WebSocketMessage {id, message_type, sender, target, content, timestamp};
\* the id and the timestamp play no part in the routing
MessageTypes ==
  {"PrivateMessage", "GroupMessage", "UserJoined", "UserLeft", "Notification", "System"}

WebSocketMessage(message_type, sender, target) ==
  [message_type |-> message_type, sender |-> sender, target |-> target,
   content |-> "hi"]

\* what the handler may get first on a new WebSocket: a text frame with an
\* auth message, a text frame with another message_type, a text frame that
\* is no JSON, a close frame, a binary frame, a stream error, the end of
\* the stream, or nothing for 30 s
AuthEvents ==
  {[kind |-> "auth", session_token |-> t] : t \in TokenInputs}
  \cup {[kind |-> k, session_token |-> ""] :
          k \in {"wrong_type", "bad_json", "close", "binary", "error", "eof",
                 "timeout"}}

\* the channel the receive task publishes a client's message on
publish_channel(ws_message) ==
  CASE ws_message.message_type = "PrivateMessage" -> <<"private:", ws_message.target>>
    [] ws_message.message_type = "GroupMessage" -> <<"group:", ws_message.target>>
    [] OTHER -> <<"system">>

\* the channels of the SUBSCRIBE commands of start_redis_subscriber; a
\* SUBSCRIBE names one channel (patterns are PSUBSCRIBE's)
subscribed_channels ==
  {<<"private:", "*">>, <<"group:", "*">>, <<"system">>, <<"notifications">>}

\* PUBLISH channel payload: Redis hands the message to the connections
\* subscribed to that channel
redis_publish(channel, ws_message) ==
  IF channel \in subscribed_channels
  THEN Append(sub_inbox, [channel |-> channel, msg |-> ws_message])
  ELSE sub_inbox

\* connection.sender.send(frame) for every connection in targets; a send
\* on a queue whose receiver is gone fails and the failure is ignored
enqueue(targets, ws_message) ==
  [s \in Sockets |->
     IF s \in targets /\ send_running[s] THEN Append(outq[s], ws_message)
     ELSE outq[s]]

\* user_connections.get(user_id) then connections.get(client_id)
connection_of_user(user_id) ==
  {c.client_id : c \in {x \in connections : <<user_id, x.client_id>> \in user_connections}}

send_to_user(user_id, message) == enqueue(connection_of_user(user_id), message)

\* every connection but those of exclude_user; _group_id is not used
send_to_group(group_id, message, exclude_user) ==
  enqueue({c.client_id : c \in {x \in connections :
                                  exclude_user = None \/ x.user_id # exclude_user.val}},
          message)

\* the routing of start_redis_subscriber for one received message
subscriber_route(ws_message) ==
  CASE ws_message.message_type = "PrivateMessage" ->
         enqueue(connection_of_user(ws_message.target), ws_message)
    [] ws_message.message_type = "GroupMessage" ->
         enqueue({c.client_id : c \in {x \in connections :
                                         x.user_id # ws_message.sender}}, ws_message)
    [] ws_message.message_type \in {"Notification", "System"} ->
         enqueue({c.client_id : c \in connections}, ws_message)
    [] OTHER -> outq

\* everything but the hub
nonHubVars == <<now, configVars, taskVars, storeVars, connVars, ws_token, ws_result>>

\* add_connection, the two inserts made under the locks
add_connection_connections(client_id, user_id) ==
  connections \cup {[client_id |-> client_id, user_id |-> user_id]}

add_connection_user_connections(client_id, user_id) ==
  {uc \in user_connections : uc[1] # user_id} \cup {<<user_id, client_id>>}

\* handle_authenticated_connection up to the spawn of the two tasks of
\* add_connection: the auth event, the auth_response, the registration
handle_authenticated_connection(s, ev) ==
  /\ ws_state[s] = "AwaitingAuth"
  /\ LET r == IF ev.kind = "auth" THEN authenticate_session(ev.session_token)
              ELSE None
         ok == ev.kind = "auth" /\ r.tag = "Some"
         failure == \/ ev.kind \in {"wrong_type", "bad_json", "binary", "timeout"}
                    \/ ev.kind = "auth" /\ r = None
     IN /\ auth_event' = [auth_event EXCEPT ![s] = ev]
        /\ auth_response' = [auth_response EXCEPT ![s] =
             IF ok THEN "success" ELSE IF failure THEN "failure" ELSE "none"]
        /\ ws_state' = [ws_state EXCEPT ![s] =
             IF ok THEN "Authenticated" ELSE "Terminated"]
        /\ recv_running' = [recv_running EXCEPT ![s] = ok]
        /\ send_running' = [send_running EXCEPT ![s] = ok]
        /\ connections' = IF ok THEN add_connection_connections(s, r.val)
                          ELSE connections
        /\ user_connections' = IF ok THEN add_connection_user_connections(s, r.val)
                               ELSE user_connections
  /\ UNCHANGED <<nonHubVars, ws_in, peer_gone, outq, sub_inbox, pub_log>>

\* the peer of an authenticated WebSocket sends a text frame that parses
\* as a WebSocketMessage; every field of it is the peer's choice
WsPeerSend(s, ws_message) ==
  /\ auth_response[s] = "success"
  /\ ~peer_gone[s]
  /\ ws_in[s] = << >>
  /\ [channel |-> publish_channel(ws_message), msg |-> ws_message] \notin pub_log
  /\ ws_in' = [ws_in EXCEPT ![s] = Append(@, ws_message)]
  /\ UNCHANGED <<nonHubVars, ws_state, auth_event, auth_response, peer_gone,
                 recv_running, send_running, connections, user_connections, outq,
                 sub_inbox, pub_log>>

\* the peer of an authenticated WebSocket sends a data frame of its own
WsClientSend(s, ws_message) ==
  /\ auth_response[s] = "success"
  /\ ~peer_gone[s]
  /\ ws_in[s] = << >>
  /\ \E c \in connections : c.client_id = s /\ c.user_id = ws_message.sender
  /\ [channel |-> publish_channel(ws_message), msg |-> ws_message] \notin pub_log
  /\ ws_in' = [ws_in EXCEPT ![s] = Append(@, ws_message)]
  /\ UNCHANGED <<nonHubVars, ws_state, auth_event, auth_response, peer_gone,
                 recv_running, send_running, connections, user_connections, outq,
                 sub_inbox, pub_log>>

\* the peer closes an authenticated WebSocket
WsClientClose(s) ==
  /\ auth_response[s] = "success"
  /\ ~peer_gone[s]
  /\ peer_gone' = [peer_gone EXCEPT ![s] = TRUE]
  /\ UNCHANGED <<nonHubVars, ws_state, auth_event, auth_response, ws_in,
                 recv_running, send_running, connections, user_connections, outq,
                 sub_inbox, pub_log>>

\* receive_task, one text frame: local broadcast and PUBLISH
WsReceive(s) ==
  /\ recv_running[s]
  /\ ws_in[s] # << >>
  /\ LET ws_message == Head(ws_in[s])
         channel == publish_channel(ws_message)
     IN /\ sub_inbox' = redis_publish(channel, ws_message)
        /\ pub_log' = pub_log \cup {[channel |-> channel, msg |-> ws_message]}
  /\ ws_in' = [ws_in EXCEPT ![s] = Tail(@)]
  /\ UNCHANGED <<nonHubVars, ws_state, auth_event, auth_response, peer_gone,
                 recv_running, send_running, connections, user_connections, outq>>

\* receive_task, the stream ended (close frame, error, end): the clean-up
WsReceiveEnd(s) ==
  /\ recv_running[s]
  /\ ws_in[s] = << >>
  /\ peer_gone[s]
  /\ recv_running' = [recv_running EXCEPT ![s] = FALSE]
  /\ LET mine == {c \in connections : c.client_id = s} IN
       /\ connections' = connections \ mine
       /\ user_connections' =
            {uc \in user_connections : \A c \in mine : uc[1] # c.user_id}
  /\ UNCHANGED <<nonHubVars, ws_state, auth_event, auth_response, ws_in, peer_gone,
                 send_running, outq, sub_inbox, pub_log>>

\* send_task, one frame of the queue: ws_sender.send; it may fail once the
\* peer is gone, and then the task ends
WsSendTask(s) ==
  /\ send_running[s]
  /\ outq[s] # << >>
  /\ outq' = [outq EXCEPT ![s] = Tail(@)]
  /\ \E sent \in BOOLEAN :
       /\ ~sent => peer_gone[s]
       /\ send_running' = [send_running EXCEPT ![s] = sent]
  /\ UNCHANGED <<nonHubVars, ws_state, auth_event, auth_response, ws_in, peer_gone,
                 recv_running, connections, user_connections, sub_inbox, pub_log>>

\* send_task, rx.recv() returns None: the queue is empty and its sender
\* was dropped with the registry entry
WsSendTaskEnd(s) ==
  /\ send_running[s]
  /\ outq[s] = << >>
  /\ \A c \in connections : c.client_id # s
  /\ send_running' = [send_running EXCEPT ![s] = FALSE]
  /\ UNCHANGED <<nonHubVars, ws_state, auth_event, auth_response, ws_in, peer_gone,
                 recv_running, connections, user_connections, outq, sub_inbox,
                 pub_log>>

\* add_connection: select! over the two tasks has one finished; Ok(())
AddConnectionReturn(s) ==
  /\ ws_state[s] = "Authenticated"
  /\ ~recv_running[s] \/ ~send_running[s]
  /\ ws_state' = [ws_state EXCEPT ![s] = "Terminated"]
  /\ UNCHANGED <<nonHubVars, auth_event, auth_response, ws_in, peer_gone,
                 recv_running, send_running, connections, user_connections, outq,
                 sub_inbox, pub_log>>

\* start_redis_subscriber, one message of the stream
RedisSubscriber ==
  /\ sub_inbox # << >>
  /\ outq' = subscriber_route(Head(sub_inbox).msg)
  /\ sub_inbox' = Tail(sub_inbox)
  /\ UNCHANGED <<nonHubVars, ws_state, auth_event, auth_response, ws_in, peer_gone,
                 recv_running, send_running, connections, user_connections, pub_log>>

\* a caller of the hub delivers to a user / to a group
SendToUser(user_id, message) ==
  /\ \A s \in Sockets : Len(outq[s]) < MaxQueue
  /\ outq' = send_to_user(user_id, message)
  /\ UNCHANGED <<nonHubVars, ws_state, auth_event, auth_response, ws_in, peer_gone,
                 recv_running, send_running, connections, user_connections,
                 sub_inbox, pub_log>>

SendToGroup(group_id, message, exclude_user) ==
  /\ \A s \in Sockets : Len(outq[s]) < MaxQueue
  /\ outq' = send_to_group(group_id, message, exclude_user)
  /\ UNCHANGED <<nonHubVars, ws_state, auth_event, auth_response, ws_in, peer_gone,
                 recv_running, send_running, connections, user_connections,
                 sub_inbox, pub_log>>

(* ------ the registry mutexes, lock by lock (server/websocket.rs) ------- *)
\* the two tokio Mutexes of ChatWebSocketManager
Mutexes == {"connections", "user_connections"}

\* the tasks that lock them: the handler task of each WebSocket (its
\* receive_task after the registration), the Redis subscriber task, and a
\* task that calls send_to_user / send_to_group
LockTasks == Sockets \cup {"subscriber", "caller"}

\* what a task is doing under the locks
Job(op, user_id, message) == [op |-> op, user_id |-> user_id, message |-> message]
NoJob == Job("none", "", WebSocketMessage("", "", ""))

\* the branch of the subscriber's match for a received message
subscriber_job(ws_message) ==
  CASE ws_message.message_type = "PrivateMessage" -> "subscriber_private"
    [] ws_message.message_type = "GroupMessage" -> "subscriber_group"
    [] ws_message.message_type \in {"Notification", "System"} -> "subscriber_all"
    [] OTHER -> "subscriber_skip"

\* the .lock().await calls of each job, in program order
lock_order(op) ==
  CASE op \in {"add_connection", "cleanup", "send_to_user"} ->
         <<"connections", "user_connections">>
    [] op = "subscriber_private" -> <<"user_connections", "connections">>
    [] op \in {"send_to_group", "subscriber_group", "subscriber_all"} ->
         <<"connections">>
    [] OTHER -> << >>

\* everything but the hub and its locks
lockFrame == <<now, configVars, storeVars, connVars, ws_token, ws_result,
               redis_sub, ws_client, reaper, listener, clientVars>>

\* a receive_task of some instance of the server PUBLISHes a client's frame
RemotePublish(ws_message) ==
  /\ Len(sub_inbox) < MaxQueue
  /\ sub_inbox' = redis_publish(publish_channel(ws_message), ws_message)
  /\ pub_log' = pub_log \cup {[channel |-> publish_channel(ws_message), msg |-> ws_message]}
  /\ UNCHANGED <<lockFrame, hub_locks, ws_state, auth_event, auth_response, ws_in,
                 peer_gone, recv_running, send_running, connections, user_connections,
                 outq>>

\* task t comes to the first .lock().await of a job: the handler of a new
\* WebSocket to add_connection's block, a receive_task whose loop ended to
\* the clean-up block, the subscriber to the branch for the next message of
\* its stream, a caller to send_to_user or send_to_group
HubStart(t, job) ==
  /\ hub_locks.job[t].op = "none"
  /\ \/ /\ t \in Sockets /\ job.op = "add_connection"
        /\ ws_state[t] = "AwaitingAuth"
        /\ job.user_id \in Users
     \/ /\ t \in Sockets /\ job.op = "cleanup"
        /\ recv_running[t]
        /\ job.user_id \in {c.user_id : c \in {x \in connections : x.client_id = t}}
     \/ /\ t = "subscriber"
        /\ sub_inbox # << >>
        /\ job = Job(subscriber_job(Head(sub_inbox).msg), "", Head(sub_inbox).msg)
     \/ /\ t = "caller" /\ job.op \in {"send_to_user", "send_to_group"}
        /\ job.user_id \in Users
  /\ \A s \in Sockets : Len(outq[s]) < MaxQueue
  /\ hub_locks' = [hub_locks EXCEPT !.job[t] = job]
  /\ UNCHANGED <<lockFrame, hubVars>>

\* a .lock().await of task t returns: the mutex was free and is now t's
HubLock(t) ==
  LET order == lock_order(hub_locks.job[t].op)
      n == hub_locks.held[t]
  IN /\ hub_locks.job[t].op # "none"
     /\ n < Len(order)
     /\ hub_locks.owner[order[n + 1]] = "none"
     /\ hub_locks' = [hub_locks EXCEPT !.owner[order[n + 1]] = t, !.held[t] = n + 1]
     /\ UNCHANGED <<lockFrame, hubVars>>

\* task t holds every lock of its job: what the job does under them, and
\* the drop of the guards
HubUnlock(t) ==
  LET job == hub_locks.job[t] IN
  /\ job.op # "none"
  /\ hub_locks.held[t] = Len(lock_order(job.op))
  /\ hub_locks' = [owner |-> [mx \in Mutexes |->
                                IF hub_locks.owner[mx] = t THEN "none"
                                ELSE hub_locks.owner[mx]],
                    job |-> [hub_locks.job EXCEPT ![t] = NoJob],
                    held |-> [hub_locks.held EXCEPT ![t] = 0]]
  /\ connections' =
       CASE job.op = "add_connection" -> add_connection_connections(t, job.user_id)
         [] job.op = "cleanup" -> {c \in connections : c.client_id # t}
         [] OTHER -> connections
  /\ user_connections' =
       CASE job.op = "add_connection" -> add_connection_user_connections(t, job.user_id)
         [] job.op = "cleanup" -> {uc \in user_connections : uc[1] # job.user_id}
         [] OTHER -> user_connections
  /\ ws_state' = IF job.op = "add_connection"
                 THEN [ws_state EXCEPT ![t] = "Authenticated"] ELSE ws_state
  /\ recv_running' =
       CASE job.op = "add_connection" -> [recv_running EXCEPT ![t] = TRUE]
         [] job.op = "cleanup" -> [recv_running EXCEPT ![t] = FALSE]
         [] OTHER -> recv_running
  /\ send_running' = IF job.op = "add_connection"
                     THEN [send_running EXCEPT ![t] = TRUE] ELSE send_running
  /\ outq' =
       CASE job.op = "send_to_user" -> send_to_user(job.user_id, job.message)
         [] job.op = "send_to_group" ->
              send_to_group("g1", job.message, Some(job.user_id))
         [] t = "subscriber" -> subscriber_route(job.message)
         [] OTHER -> outq
  /\ sub_inbox' = IF t = "subscriber" THEN Tail(sub_inbox) ELSE sub_inbox
  /\ UNCHANGED <<lockFrame, auth_event, auth_response, ws_in, peer_gone, pub_log>>

(* ---------------- the client's group message polling ------------------- *)
(* ChatApp::update for one group chat.  polling.group_polling_active is    *)
(* the flag of the state; fetches counts the tasks of Command::perform     *)
(* that will call get_group_messages (asleep, waiting for the service or   *)
(* in the call); mailbox holds the messages the finished tasks handed to   *)
(* the runtime, in the order update will get them; group_chats is the      *)
(* cached chat (the number of messages of the list a fetch returned);      *)
(* stored is the number of messages the server holds for the chat and      *)
(* opened the number of times the chat was opened.                         *)
NotCached == 0 - 1
PollMsg(msg, messages) == [msg |-> msg, messages |-> messages]
pollFrame == <<now, configVars, storeVars, connVars, wsVars, redis_sub, ws_client,
               reaper, listener, hub_locks, chat_service>>

\* Msg::StartGroupMessagePolling (sent by OpenGroupChat): if polling is not
\* active, set the flag and perform the first fetch
StartGroupMessagePolling ==
  /\ polling.opened < MaxPollOpens
  /\ polling' = IF ~polling.group_polling_active
                THEN [polling EXCEPT !.opened = @ + 1,
                                     !.group_polling_active = TRUE,
                                     !.fetches = @ + 1]
                ELSE [polling EXCEPT !.opened = @ + 1]
  /\ UNCHANGED pollFrame

\* Msg::StopGroupMessagePolling
StopGroupMessagePolling ==
  /\ polling' = [polling EXCEPT !.group_polling_active = FALSE]
  /\ UNCHANGED pollFrame

\* a fetch task ends: get_group_messages returned the chat as the server
\* has it and the task's message is NewGroupMessagesReceived
FetchDone ==
  /\ polling.fetches > 0
  /\ polling' = [polling EXCEPT
       !.fetches = @ - 1,
       !.mailbox = Append(@, PollMsg("NewGroupMessagesReceived", polling.stored))]
  /\ UNCHANGED pollFrame

\* Msg::NewGroupMessagesReceived: if polling is active, cache the list and
\* perform the next fetch (after 100 ms); otherwise nothing
NewGroupMessagesReceived ==
  /\ polling.mailbox # << >>
  /\ Head(polling.mailbox).msg = "NewGroupMessagesReceived"
  /\ polling' = IF polling.group_polling_active
                THEN [polling EXCEPT !.mailbox = Tail(@),
                                     !.group_chats = Head(polling.mailbox).messages,
                                     !.fetches = @ + 1]
                ELSE [polling EXCEPT !.mailbox = Tail(@)]
  /\ UNCHANGED pollFrame

\* Message::SendGroupMessage (app_state.rs): the task sends the message and
\* its message is TriggerImmediateGroupRefresh
SendGroupMessage ==
  /\ polling.stored < MaxPollSends
  /\ polling' = [polling EXCEPT
       !.stored = @ + 1,
       !.mailbox = Append(@, PollMsg("TriggerImmediateGroupRefresh", 0))]
  /\ UNCHANGED pollFrame

\* Msg::TriggerImmediateGroupRefresh: perform a fetch whose message is
\* NewGroupMessagesReceived
TriggerImmediateGroupRefresh ==
  /\ polling.mailbox # << >>
  /\ Head(polling.mailbox).msg = "TriggerImmediateGroupRefresh"
  /\ polling' = [polling EXCEPT !.mailbox = Tail(@), !.fetches = @ + 1]
  /\ UNCHANGED pollFrame

(* ------------------- the accept loop (Server::run) --------------------- *)
\* listener.running: run is in its loop; listener.handshaking: the spawned
\* tasks that are in acceptor.accept(stream); listener.tasks: the spawned
\* tasks that are in handle_client / handle_tls_client.
\* listener.accept().await? returned for peer c: an Err (the connection of c
\* failed while it was being established, and accept reports the pending
\* error) leaves run through the `?`; with a stream a task is spawned, which starts with the TLS
\* handshake when an acceptor is configured (enable_encryption with the
\* certificate and key of TLS_CERT_PATH and TLS_KEY_PATH)
Accept(c, ok) ==
  /\ listener.running
  /\ c \notin listener.handshaking \cup listener.tasks
  /\ pc[c] = "read" /\ nread[c] = 0 /\ ~eof[c]
  /\ listener' =
       IF ~ok THEN [listener EXCEPT !.running = FALSE]
       ELSE IF enable_encryption
       THEN [listener EXCEPT !.handshaking = @ \cup {c}]
       ELSE [listener EXCEPT !.tasks = @ \cup {c}]
  /\ UNCHANGED <<now, configVars, storeVars, connVars, wsVars, redis_sub, ws_client, reaper, hub_locks, clientVars>>

\* acceptor.accept(stream).await returned in the task of c: on Ok the task
\* goes on to handle_tls_client, on Err it logs and ends
TlsAccept(c, ok) ==
  /\ c \in listener.handshaking
  /\ listener' = [listener EXCEPT !.handshaking = @ \ {c},
                                  !.tasks = IF ok THEN @ \cup {c} ELSE @]
  /\ IF ok THEN UNCHANGED pc ELSE pc' = [pc EXCEPT ![c] = "done"]
  /\ UNCHANGED <<now, configVars, storeVars, wsVars, redis_sub, ws_client, reaper, hub_locks, clientVars,
                 inq, eof, cur, loc, wire, sent_blank, nread, resp_tags, logged_out>>

(* ------- the client's ChatService (client/services/chat_service.rs) ---- *)
\* chat_service.pc: where the background task of ensure_connected stands
\*   ("recv": in rx.recv(); "write": at the top of the send loop; "read": in
\*   the first read_line; "read_more": in the timed read_line of a multi-line
\*   response); .cmd: the command it is handling; .conn: the connection its
\*   reader and writer are halves of; .dropped: that connection is broken;
\*   .net: the lines the server wrote on it that the reader has not returned
\*   yet, each with the number of the command it answers; .sent: per
\*   connection, the numbers of the commands written on it; .response, .from:
\*   the response being collected and the commands whose lines went into it;
\*   .results: what resp_tx.send has delivered; .answers: per command, the
\*   responses the server flushed for it
NoClientCommand == [k |-> 0, multiline |-> FALSE, text |-> << >>]

\* a peer that accepts a connection and closes it before answering
ClosedEarly == "closed_early"

\* everything but the connections and the ChatService
chatFrame == <<now, configVars, storeVars, wsVars, redis_sub, ws_client, reaper,
               listener, hub_locks, polling>>

\* the bytes the server flushed on the service's connection since the
\* service last looked join the lines its reader has yet to return
Arrived ==
  LET cs == chat_service IN
  IF cs.conn \in Conns /\ ~cs.dropped /\ Len(resp_tags[cs.conn]) > cs.taken
  THEN LET k == cs.sent[cs.conn][resp_tags[cs.conn][Len(resp_tags[cs.conn])]]
           lines == WireLines(wire[cs.conn])
       IN [cs EXCEPT !.net = @ \o [i \in 1..Len(lines) |-> [k |-> k, text |-> lines[i]]],
                     !.taken = Len(resp_tags[cs.conn]),
                     !.answers[k] = @ \cup {wire[cs.conn]}]
  ELSE cs

\* resp_tx.send(resp); break: the caller of command cs.cmd.k has its result
Deliver(cs, resp, from, err) ==
  [cs EXCEPT !.pc = "recv", !.response = << >>, !.from = {},
             !.results = Append(@, [k |-> cs.cmd.k, resp |-> resp, from |-> from,
                                    err |-> err])]

\* TcpStream::connect(&host) in the send loop: a connection to the server
\* (reader and writer are replaced, continue), a connection that is closed
\* before any answer, or an error (the caller gets "ERR: reconnect failed")
Reconnected(cs, outcome) ==
  CASE outcome = "error" ->
         Deliver(cs, <<"ERR: reconnect failed: ", "Connection refused">>, {}, TRUE)
    [] outcome = ClosedEarly ->
         [cs EXCEPT !.pc = "write", !.conn = ClosedEarly, !.dropped = FALSE,
                    !.net = << >>, !.taken = 0]
    [] OTHER ->
         [cs EXCEPT !.pc = "write", !.conn = outcome, !.dropped = FALSE,
                    !.net = << >>, !.taken = 0]

\* the outcomes a connect can have: the connections of the model are used
\* once each
ConnectOutcomes ==
  {"error", ClosedEarly}
  \cup {c \in Conns : c # chat_service.conn /\ chat_service.sent[c] = << >>
                      /\ sent_blank[c] = << >> /\ ~eof[c]}

\* send_command / send_multiline_command: the caller holds the service,
\* queues the command and awaits the result; rx.recv() hands it to the task
SendCommand(multiline, text) ==
  /\ chat_service.pc = "recv"
  /\ chat_service.issued < MaxClientCmds
  /\ chat_service' = [chat_service EXCEPT
       !.pc = "write", !.issued = @ + 1,
       !.cmd = [k |-> chat_service.issued + 1, multiline |-> multiline, text |-> text]]
  /\ UNCHANGED <<chatFrame, connVars>>

\* writer.write_all(cmd); write_all(b"\n"); flush(): the line goes out, or
\* the write fails on a broken connection and the task reconnects
SvcWrite ==
  LET cs == Arrived IN
  /\ cs.pc = "write"
  /\ IF cs.dropped
     THEN /\ \E outcome \in ConnectOutcomes : chat_service' = Reconnected(cs, outcome)
          /\ UNCHANGED <<chatFrame, connVars>>
     ELSE IF cs.conn = ClosedEarly
     THEN /\ chat_service' = [cs EXCEPT !.pc = "read"]
          /\ UNCHANGED <<chatFrame, connVars>>
     ELSE /\ inq' = [inq EXCEPT ![cs.conn] =
                      Append(@, [tag |-> Len(sent_blank[cs.conn]) + 1,
                                 text |-> cs.cmd.text])]
          /\ sent_blank' = [sent_blank EXCEPT ![cs.conn] = Append(@, Blank(cs.cmd.text))]
          /\ chat_service' = [cs EXCEPT !.pc = "read",
                                         !.sent[cs.conn] = Append(@, cs.cmd.k)]
          /\ UNCHANGED <<chatFrame, eof, pc, cur, loc, wire, nread, resp_tags, logged_out>>

\* the first read_line of the response: a line (the whole response of a
\* single-line command, the first line of a multi-line one), or Ok(0) / Err
\* and the reconnect
SvcReadFirst ==
  LET cs == Arrived IN
  /\ cs.pc = "read"
  /\ IF cs.net # << >>
     THEN LET line == Head(cs.net)
              rest == [cs EXCEPT !.net = Tail(@)]
          IN chat_service' =
               IF cs.cmd.multiline
               THEN [rest EXCEPT !.pc = "read_more", !.response = line.text \o <<NL>>,
                                 !.from = {line.k}]
               ELSE Deliver(rest, trim(line.text \o <<NL>>), {line.k}, FALSE)
     ELSE /\ cs.dropped \/ cs.conn = ClosedEarly
          /\ \E outcome \in ConnectOutcomes : chat_service' = Reconnected(cs, outcome)
  /\ UNCHANGED <<chatFrame, connVars>>

\* timeout(100 ms, read_line) in the loop of a multi-line response: a line
\* that arrived in time (an empty one ends the response), or the timeout,
\* Ok(0) or an error, each of which ends the response
SvcReadMore(in_time) ==
  LET cs == Arrived IN
  /\ cs.pc = "read_more"
  /\ IF in_time
     THEN /\ cs.net # << >>
          /\ LET line == Head(cs.net)
                 rest == [cs EXCEPT !.net = Tail(@)]
             IN chat_service' =
                  IF trim(line.text \o <<NL>>) = << >>
                  THEN Deliver(rest, trim(cs.response), cs.from, FALSE)
                  ELSE [rest EXCEPT !.response = @ \o line.text \o <<NL>>,
                                    !.from = @ \cup {line.k}]
     ELSE chat_service' = Deliver(cs, trim(cs.response), cs.from, FALSE)
  /\ UNCHANGED <<chatFrame, connVars>>

\* the connection between the service and the server breaks: what the
\* server had written is lost to the reader, what had reached the server is
\* still read and executed there before its read_line sees the end
ConnDrop ==
  /\ chat_service.conn \in Conns
  /\ ~chat_service.dropped
  /\ chat_service.sent[chat_service.conn] # << >>
  /\ chat_service' = [chat_service EXCEPT !.dropped = TRUE, !.net = << >>]
  /\ eof' = [eof EXCEPT ![chat_service.conn] = TRUE]
  /\ UNCHANGED <<chatFrame, inq, pc, cur, loc, wire, sent_blank, nread, resp_tags,
                 logged_out>>

(* --------- the Redis subscriber task (start_redis_subscriber) ---------- *)
\* redis_sub.pc is where the spawned task stands in its loop; redis_sub.waits
\* lists the sleeps of the retries made since the last successful connection
\* redis::Client::open and get_async_connection: with a connection the task
\* subscribes and listens, without one it falls through to the sleep
RedisConnect(ok) ==
  /\ redis_sub.pc = "connect"
  /\ ~ok => Len(redis_sub.waits) < MaxRetries
  /\ redis_sub' = IF ok THEN [pc |-> "listen", waits |-> << >>]
                  ELSE [redis_sub EXCEPT !.pc = "sleep"]
  /\ UNCHANGED <<now, configVars, storeVars, connVars, wsVars, ws_client, reaper, listener, hub_locks, clientVars>>

\* stream.next() returned None: the inner loop breaks, on to the sleep
RedisStreamEnd ==
  /\ redis_sub.pc = "listen"
  /\ redis_sub' = [redis_sub EXCEPT !.pc = "sleep"]
  /\ UNCHANGED <<now, configVars, storeVars, connVars, wsVars, ws_client, reaper, listener, hub_locks, clientVars>>

\* tokio::time::sleep(Duration::from_secs(5)), then the loop is entered again
RedisSleep ==
  /\ redis_sub.pc = "sleep"
  /\ redis_sub' = [pc |-> "connect", waits |-> Append(redis_sub.waits, 5)]
  /\ UNCHANGED <<now, configVars, storeVars, connVars, wsVars, ws_client, reaper, listener, hub_locks, clientVars>>

(* ------------- the client's WebSocketClient (websocket_client.rs) ------- *)
\* ws_client holds the fields of the struct as WebSocketClient::new leaves
\* them (retry_delay in seconds), the position of a connect_with_auth call
\* (pc, attempt) and, of the call in progress or last made, the retry_delay
\* it started with and the sleeps it made
\* it made, what each try_connect of it returned (outcomes) and what the
\* call returned (result: Ok, or Err with the error of the n-th attempt)
NoResult == [returned |-> FALSE, ok |-> FALSE, err |-> 0]
ResultOk == [returned |-> TRUE, ok |-> TRUE, err |-> 0]
ResultErr(n) == [returned |-> TRUE, ok |-> FALSE, err |-> n]

\* connect_with_auth is called: for attempt in 1..=self.max_retry_attempts
ConnectWithAuth ==
  /\ ws_client.pc = "idle"
  /\ ws_client' = [ws_client EXCEPT !.pc = "try", !.attempt = 1, !.waits = << >>,
                                    !.start_delay = ws_client.retry_delay,
                                    !.outcomes = << >>, !.result = NoResult]
  /\ UNCHANGED <<now, configVars, storeVars, connVars, wsVars, redis_sub, reaper, listener, hub_locks, clientVars>>

\* a loop body whose backoff is not capped
TryConnectUncapped(ok) ==
  /\ ws_client.pc = "try"
  /\ ws_client' =
       IF ok THEN [ws_client EXCEPT !.pc = "idle", !.connection_retry_attempts = 0,
                                    !.outcomes = Append(@, TRUE), !.result = ResultOk]
       ELSE IF ws_client.attempt < ws_client.max_retry_attempts
       THEN [ws_client EXCEPT !.connection_retry_attempts = ws_client.attempt,
                              !.waits = Append(@, ws_client.retry_delay),
                              !.retry_delay = ws_client.retry_delay * 2,
                              !.attempt = @ + 1,
                              !.outcomes = Append(@, FALSE)]
       ELSE [ws_client EXCEPT !.connection_retry_attempts = ws_client.attempt,
                              !.pc = "idle",
                              !.outcomes = Append(@, FALSE),
                              !.result = ResultErr(ws_client.attempt)]
  /\ UNCHANGED <<now, configVars, storeVars, connVars, wsVars, redis_sub, reaper, listener, hub_locks, clientVars>>

\* a loop body that leaves connection_retry_attempts as it is on success
TryConnectNoReset(ok) ==
  /\ ws_client.pc = "try"
  /\ ws_client' =
       IF ok THEN [ws_client EXCEPT !.pc = "idle",
                                    !.outcomes = Append(@, TRUE), !.result = ResultOk]
       ELSE IF ws_client.attempt < ws_client.max_retry_attempts
       THEN [ws_client EXCEPT !.connection_retry_attempts = ws_client.attempt,
                              !.waits = Append(@, ws_client.retry_delay),
                              !.retry_delay = IF ws_client.retry_delay * 2 <= 30
                                              THEN ws_client.retry_delay * 2 ELSE 30,
                              !.attempt = @ + 1,
                              !.outcomes = Append(@, FALSE)]
       ELSE [ws_client EXCEPT !.connection_retry_attempts = ws_client.attempt,
                              !.pc = "idle",
                              !.outcomes = Append(@, FALSE),
                              !.result = ResultErr(ws_client.attempt)]
  /\ UNCHANGED <<now, configVars, storeVars, connVars, wsVars, redis_sub, reaper, listener, hub_locks, clientVars>>

\* one pass of the loop body: try_connect succeeded (return Ok), or failed:
\* before the last attempt sleep(retry_delay) and then
\* retry_delay = min(retry_delay * 2, 30 s), at the last attempt return Err
TryConnect(ok) ==
  /\ ws_client.pc = "try"
  /\ ws_client' =
       IF ok THEN [ws_client EXCEPT !.pc = "idle", !.connection_retry_attempts = 0,
                                    !.outcomes = Append(@, TRUE), !.result = ResultOk]
       ELSE IF ws_client.attempt < ws_client.max_retry_attempts
       THEN [ws_client EXCEPT !.connection_retry_attempts = ws_client.attempt,
                              !.waits = Append(@, ws_client.retry_delay),
                              !.retry_delay = IF ws_client.retry_delay * 2 <= 30
                                              THEN ws_client.retry_delay * 2 ELSE 30,
                              !.attempt = @ + 1,
                              !.outcomes = Append(@, FALSE)]
       ELSE [ws_client EXCEPT !.connection_retry_attempts = ws_client.attempt,
                              !.pc = "idle",
                              !.outcomes = Append(@, FALSE),
                              !.result = ResultErr(ws_client.attempt)]
  /\ UNCHANGED <<now, configVars, storeVars, connVars, wsVars, redis_sub, reaper, listener, hub_locks, clientVars>>

\* reset_retry_delay(&mut self), between two calls
reset_retry_delay ==
  /\ ws_client.pc = "idle"
  /\ ws_client' = [ws_client EXCEPT !.retry_delay = 2]
  /\ UNCHANGED <<now, configVars, storeVars, connVars, wsVars, redis_sub, reaper, listener, hub_locks, clientVars>>

(* ------------------- the session reaper (main.rs) ---------------------- *)
\* auth::cleanup_expired_sessions: DELETE FROM sessions WHERE expires_at <= now
cleanup_expired_sessions == {s \in sessions : s.expires_at > now}

\* reaper.pc is where the task main spawned stands in its loop (it starts
\* with a cleanup); reaper.in_progress counts the cleanup calls begun and
\* not yet returned
\* cleanup_expired_sessions(..) is called
ReapBegin ==
  /\ reaper.pc = "start"
  /\ reaper' = [pc |-> "cleaning", in_progress |-> reaper.in_progress + 1]
  /\ UNCHANGED <<now, configVars, storeVars, connVars, wsVars, redis_sub, ws_client, listener, hub_locks, clientVars>>

\* .await: the call has run its DELETE and returns; on to the sleep
ReapEnd ==
  /\ reaper.pc = "cleaning"
  /\ sessions' = cleanup_expired_sessions
  /\ reaper' = [pc |-> "sleep", in_progress |-> reaper.in_progress - 1]
  /\ UNCHANGED <<now, configVars, issued, members, msgs, next_id, connVars, wsVars,
                 redis_sub, ws_client, listener, hub_locks, clientVars>>

\* a timer that starts the next cleanup whether or not the last has returned
ReaperWakeUnguarded ==
  /\ reaper.pc \in {"sleep", "cleaning"}
  /\ reaper.in_progress < 3
  /\ reaper' = [reaper EXCEPT !.pc = "start"]
  /\ UNCHANGED <<now, configVars, storeVars, connVars, wsVars, redis_sub, ws_client, listener, hub_locks, clientVars>>

\* tokio::time::sleep(Duration::from_secs(60 * 60)) is over: loop
ReaperWake ==
  /\ reaper.pc = "sleep"
  /\ reaper' = [reaper EXCEPT !.pc = "start"]
  /\ UNCHANGED <<now, configVars, storeVars, connVars, wsVars, redis_sub, ws_client, listener, hub_locks, clientVars>>

(* ------------------------------ the clock ------------------------------ *)
Tick ==
  /\ now < MaxTime
  /\ now' = now + 1
  /\ UNCHANGED <<configVars, taskVars, storeVars, connVars, wsVars>>

(* ------------------------------ restart -------------------------------- *)
\* The server process is stopped and started again, between two requests:
\* main reads ENABLE_ENCRYPTION and ENCRYPTION_MASTER_KEY anew
\* (ServerConfig::from_env) and opens the same database, whose rows stay.
\* The peer's connection stands for its connection to the running server.
Restart(enable, master_key) ==
  /\ \A c \in Conns : pc[c] = "read" /\ inq[c] = << >>
  /\ enable_encryption' = enable
  /\ encryption_master_key' = master_key
  /\ UNCHANGED <<now, taskVars, storeVars, connVars, wsVars>>

(* --------------------------- specifications ---------------------------- *)
TokA == IssuableTokens[1]
TokB == IssuableTokens[2]

\* the session rows two logins at time 0 leave
SessionsAB ==
  {[session_token |-> TokA, user_id |-> "u1", expires_at |-> session_ttl],
   [session_token |-> TokB, user_id |-> "u2", expires_at |-> session_ttl]}

InitConns ==
  /\ inq = [c \in Conns |-> << >>]
  /\ eof = [c \in Conns |-> FALSE]
  /\ pc = [c \in Conns |-> "read"]
  /\ cur = [c \in Conns |-> NoCommand]
  /\ loc = [c \in Conns |-> NoCont]
  /\ wire = [c \in Conns |-> << >>]
  /\ sent_blank = [c \in Conns |-> << >>]
  /\ nread = [c \in Conns |-> 0]
  /\ resp_tags = [c \in Conns |-> << >>]
  /\ logged_out = {}
  /\ ws_token = ""
  /\ ws_result = None
  /\ ws_state = [s \in Sockets |-> "AwaitingAuth"]
  /\ auth_event = [s \in Sockets |-> [kind |-> "", session_token |-> ""]]
  /\ auth_response = [s \in Sockets |-> "none"]
  /\ ws_in = [s \in Sockets |-> << >>]
  /\ peer_gone = [s \in Sockets |-> FALSE]
  /\ recv_running = [s \in Sockets |-> FALSE]
  /\ send_running = [s \in Sockets |-> FALSE]
  /\ connections = {}
  /\ user_connections = {}
  /\ outq = [s \in Sockets |-> << >>]
  /\ sub_inbox = << >>
  /\ pub_log = {}
  /\ redis_sub = [pc |-> "connect", waits |-> << >>]
  /\ ws_client = [pc |-> "idle", attempt |-> 0, connection_retry_attempts |-> 0,
                  max_retry_attempts |-> 5, retry_delay |-> 2,
                  start_delay |-> 2, waits |-> << >>,
                  outcomes |-> << >>, result |-> NoResult]
  /\ reaper = [pc |-> "start", in_progress |-> 0]
  /\ listener = [running |-> TRUE, handshaking |-> {}, tasks |-> {}]
  /\ hub_locks = [owner |-> [mx \in Mutexes |-> "none"],
                  job |-> [t \in LockTasks |-> NoJob],
                  held |-> [t \in LockTasks |-> 0]]
  /\ chat_service = [pc |-> "recv", issued |-> 0, cmd |-> NoClientCommand,
                     conn |-> "c1", dropped |-> FALSE, net |-> << >>, taken |-> 0,
                     sent |-> [c \in Conns |-> << >>], response |-> << >>,
                     from |-> {}, results |-> << >>,
                     answers |-> [k \in 1..MaxClientCmds |-> {}]]
  /\ polling = [group_polling_active |-> FALSE, fetches |-> 0, mailbox |-> << >>,
                group_chats |-> NotCached, stored |-> 0, opened |-> 0]

\* the server as started: no session, the founder alone in the group
Init ==
  /\ now = 0
  /\ enable_encryption = TRUE
  /\ encryption_master_key = "k1"
  /\ sessions = {}
  /\ issued = 0
  /\ members = {<<"g1", "u1">>}
  /\ msgs = << >>
  /\ next_id = 1
  /\ InitConns

\* what the peer writes in the session scenario
SessionLines ==
  {Line(<<"/login", "alice", "pw123456">>),
   Line(<<"/list_friends", ForgedToken>>), Line(<<"/my_groups", TokA>>),
   <<NL>>, <<SP, NL>>}
  \cup {Line(<<"/logout", t>>) : t \in {TokA, ForgedToken}}
  \cup {Line(<<"/validate_session", t>>) : t \in {TokA, ForgedToken}}
  \cup {Line(<<"/get_private_messages", t, "bob">>) : t \in {TokA, ForgedToken}}

\* one peer that pipelines its requests
Next ==
  \/ \E l \in SessionLines : ClientWrite("c1", l, MaxPending, MaxReqs)
  \/ ClientClose("c1")
  \/ ReadLine("c1")
  \/ ReadEof("c1")
  \/ Dispatch("c1")
  \/ \E t \in TokenInputs : WsAuth(t)
  \/ Tick

Spec == Init /\ [][Next]_vars

(* ------------- what the client writes to send a message ---------------- *)
\* ChatService::send_private_message, TCP path:
\*   format!("/send_private_message {} {} {}", session_token, to, msg)
client_send_private_message(session_token, to, msg) ==
  <<"/send_private_message", SP, session_token, SP, to, SP>> \o msg \o <<NL>>

\* ChatService::send_group_message / GroupService::send_group_message:
\*   format!("/send_group_message {} {} {}", session_token, group_id, msg)
client_send_group_message(session_token, group_id, msg) ==
  <<"/send_group_message", SP, session_token, SP, group_id, SP>> \o msg \o <<NL>>

(* The chat scenario: alice (u1) and bob (u2) hold the sessions of two     *)
(* logins at time 0, carol (u3) holds none; one peer sends, reads, deletes, *)
(* joins and leaves, waiting for each response.                             *)
InitChat ==
  /\ now = 0
  /\ enable_encryption \in BOOLEAN
  /\ encryption_master_key = "k1"
  /\ sessions = SessionsAB
  /\ issued = 2
  /\ members = {<<"g1", "u1">>}
  /\ msgs = << >>
  /\ next_id = 1
  /\ InitConns

ChatLines ==
  {Line(<<"/send", TokA, "g1", "hi">>), Line(<<"/send", TokB, "g1", "yo">>),
   Line(<<"/send", TokB, NoSuchGroup, "yo">>),
   Line(<<"/send_private", TokA, "bob", "hi">>),
   Line(<<"/private", TokB, "alice", "yo">>),
   Line(<<"/send_private", TokA, "carol", "yo">>),
   Line(<<"/send_private", TokB, "carol", "hi">>),
   client_send_group_message(TokA, "g1", <<"hi">>),
   client_send_private_message(TokA, "bob", <<"hi">>),
   Line(<<"/get_group_messages", TokA, "g1">>),
   Line(<<"/get_group_messages", TokB, "g1">>),
   Line(<<"/get_group_messages", TokB, NoSuchGroup>>),
   Line(<<"/get_private_messages", TokA, "bob">>),
   Line(<<"/get_private_messages", TokB, "alice">>),
   Line(<<"/get_private_messages", TokA, "carol">>),
   Line(<<"/get_private_messages", TokB, "carol">>),
   Line(<<"/delete_group_messages", TokB, "g1">>),
   Line(<<"/delete_private_messages", TokA, "bob">>),
   Line(<<"/delete_private_messages", TokA, NoSuchUser>>),
   Line(<<"/join_group", TokB, "g1">>),
   Line(<<"/leave_group", TokB, "g1">>)}

NextChat ==
  \/ \E l \in ChatLines : ClientWrite("c1", l, OnePending, MaxChatReqs)
  \/ ReadLine("c1")
  \/ Dispatch("c1")
  \/ InsertStep("c1")
  \/ Tick

SpecChat == InitChat /\ [][NextChat]_vars

(* The race scenario: alice (u1), a member of g1, is logged in on two      *)
(* connections with the same session; each connection is its own task, so  *)
(* the handlers of the two interleave at their await points.               *)
RaceLines ==
  {Line(<<"/send", TokA, "g1", "hi">>),
   Line(<<"/leave_group", TokA, "g1">>),
   Line(<<"/join_group", TokA, "g1">>)}

NextRace ==
  \/ \E c \in Conns, l \in RaceLines : ClientWrite(c, l, OnePending, MaxRaceReqs)
  \/ \E c \in Conns : ReadLine(c)
  \/ \E c \in Conns : Dispatch(c)
  \/ \E c \in Conns : InsertStep(c)

SpecRace == InitChat /\ [][NextRace]_vars

(* The hub scenario: alice (u1, the one member of g1) and bob (u2) hold    *)
(* sessions; two WebSockets are accepted and each may authenticate as      *)
(* either of them or fail to; alice's client sends data frames, peers go   *)
(* away, and callers of the hub deliver to a user and to the group.        *)
InitHub == InitChat /\ enable_encryption

\* the data frames alice's client sends
DataFrames ==
  {WebSocketMessage("PrivateMessage", "u1", "u2"),
   WebSocketMessage("PrivateMessage", "u1", "*"),
   WebSocketMessage("GroupMessage", "u1", "g1"),
   WebSocketMessage("GroupMessage", "u1", "*"),
   WebSocketMessage("System", "u1", "all")}

NextHub ==
  \/ \E s \in Sockets, ev \in AuthEvents : handle_authenticated_connection(s, ev)
  \/ \E s \in Sockets, f \in DataFrames : WsClientSend(s, f)
  \/ \E s \in Sockets : WsClientClose(s)
  \/ \E s \in Sockets : WsReceive(s)
  \/ \E s \in Sockets : WsReceiveEnd(s)
  \/ \E s \in Sockets : WsSendTask(s)
  \/ \E s \in Sockets : WsSendTaskEnd(s)
  \/ \E s \in Sockets : AddConnectionReturn(s)
  \/ RedisSubscriber
  \/ SendToUser("u2", WebSocketMessage("PrivateMessage", "u1", "u2"))
  \/ SendToGroup("g1", WebSocketMessage("GroupMessage", "u1", "g1"), Some("u1"))

SpecHub == InitHub /\ [][NextHub]_vars

(* The bridge scenario: alice's client holds the TCP connection c1 and the *)
(* WebSocket w1, bob's client the WebSocket w2.  Alice sends private       *)
(* messages to bob with the client's send_private_message, and with the    *)
(* /send_private command the server does dispatch; her client also sends  *)
(* a System frame.                                                         *)
\* WebSocketService::is_connected for the WebSocket s
is_connected(s) == auth_response[s] = "success" /\ ~peer_gone[s]

\* ChatService::send_private_message: the WebSocket when it is connected
\* (the function then returns "OK: Message sent via WebSocket"), the TCP
\* command otherwise
ChatServiceSendPrivateMessage(c, s, session_token, from, to_name, to_id) ==
  IF is_connected(s)
  THEN WsClientSend(s, WebSocketMessage("PrivateMessage", from, to_id))
  ELSE ClientWrite(c, client_send_private_message(session_token, to_name, <<"hi">>),
                   OnePending, MaxBridgeReqs)

NextBridge ==
  \/ handle_authenticated_connection("w1", [kind |-> "auth", session_token |-> TokA])
  \/ handle_authenticated_connection("w2", [kind |-> "auth", session_token |-> TokB])
  \/ ChatServiceSendPrivateMessage("c1", "w1", TokA, "u1", "bob", "u2")
  \/ WsClientSend("w1", WebSocketMessage("System", "u1", "all"))
  \/ ClientWrite("c1", Line(<<"/send_private", TokA, "bob", "hi">>), OnePending,
                 MaxBridgeReqs)
  \/ ReadLine("c1")
  \/ Dispatch("c1")
  \/ \E s \in Sockets : WsClientClose(s)
  \/ \E s \in Sockets : WsReceive(s)
  \/ \E s \in Sockets : WsReceiveEnd(s)
  \/ \E s \in Sockets : WsSendTask(s)
  \/ RedisSubscriber

SpecBridge == InitHub /\ [][NextBridge]_vars

(* The length scenario: alice sends messages of 2, 5, 8 and 9 bytes, with  *)
(* the commands her client writes and with those the server dispatches;    *)
(* short and long messages are also sent with a forged token and to a user  *)
(* that does not exist.                                                     *)
LengthMessages == {<<"hi">>, <<"hi", SP, "yo">>, <<"aaaaaaaa">>, <<"aaaaaaaaa">>}

LengthLines ==
  {client_send_private_message(TokA, "bob", t) : t \in LengthMessages}
  \cup {client_send_group_message(TokA, "g1", t) : t \in LengthMessages}
  \cup {Line(<<"/send_private", TokA, "bob">> \o split_whitespace(t)) :
          t \in LengthMessages}
  \cup {Line(<<"/send", TokA, "g1">> \o split_whitespace(t)) : t \in LengthMessages}
  \cup {Line(<<"/send_private", tok, to, t>>) :
          tok \in {TokA, ForgedToken}, to \in {"bob", NoSuchUser},
          t \in {"hi", "aaaaaaaaa"}}
  \cup {Line(<<"/send", ForgedToken, "g1", t>>) : t \in {"hi", "aaaaaaaaa"}}

NextLength ==
  \/ \E l \in LengthLines : ClientWrite("c1", l, OnePending, MaxLengthReqs)
  \/ ReadLine("c1")
  \/ Dispatch("c1")
  \/ InsertStep("c1")

SpecLength == InitChat /\ [][NextLength]_vars

(* The tasks scenario: next to the sessions of alice and bob, which expire *)
(* when the clock ticks, the reaper, the Redis subscriber and a client's    *)
(* reconnecting WebSocket run, each at its own pace.                        *)
NextTasks ==
  \/ \E ok \in BOOLEAN : RedisConnect(ok)
  \/ RedisStreamEnd
  \/ RedisSleep
  \/ ConnectWithAuth
  \/ \E ok \in BOOLEAN : TryConnect(ok)
  \/ reset_retry_delay
  \/ ReapBegin
  \/ ReapEnd
  \/ ReaperWake
  \/ Tick

SpecTasks == InitHub /\ [][NextTasks]_vars

(* The lock scenario: two WebSockets register, as alice or as bob, and     *)
(* later clean up; frames are published; a caller delivers to bob and to    *)
(* the group; every .lock().await is a step of its own.                     *)
LockJobs ==
  {Job("add_connection", u, NoJob.message) : u \in {"u1", "u2"}}
  \cup {Job("cleanup", u, NoJob.message) : u \in {"u1", "u2"}}
  \cup {Job(subscriber_job(f), "", f) : f \in DataFrames}
  \cup {Job("send_to_user", "u2", WebSocketMessage("PrivateMessage", "u1", "u2")),
        Job("send_to_group", "u1", WebSocketMessage("GroupMessage", "u1", "g1"))}

NextLocks ==
  \/ \E f \in DataFrames : RemotePublish(f)
  \/ \E t \in LockTasks, job \in LockJobs : HubStart(t, job)
  \/ \E t \in LockTasks : HubLock(t)
  \/ \E t \in LockTasks : HubUnlock(t)
  \/ \E s \in Sockets : WsSendTask(s)

SpecLocks == InitHub /\ [][NextLocks]_vars

(* The forgery scenario: as the hub scenario, but the peers write the      *)
(* sender field of their frames as they like.                               *)
PeerFrames ==
  {WebSocketMessage("PrivateMessage", "u1", "u2"),
   WebSocketMessage("System", "u1", "all"), WebSocketMessage("System", "u2", "all")}

NextForge ==
  \/ \E s \in Sockets, t \in {TokA, TokB, ForgedToken} :
       handle_authenticated_connection(s, [kind |-> "auth", session_token |-> t])
  \/ \E s \in Sockets, f \in PeerFrames : WsPeerSend(s, f)
  \/ \E s \in Sockets : WsClientClose(s)
  \/ \E s \in Sockets : WsReceive(s)
  \/ \E s \in Sockets : WsReceiveEnd(s)
  \/ \E s \in Sockets : WsSendTask(s)
  \/ RedisSubscriber

SpecForge == InitHub /\ [][NextForge]_vars

(* The client scenario: alice's ChatService sends up to MaxClientCmds      *)
(* commands, one call at a time: one private message, reads of the chat     *)
(* through send_command (FriendService) and send_multiline_command          *)
(* (ChatService::get_private_messages), /validate_session; the connection   *)
(* may break and the service reconnects.                                    *)
ClientCommands ==
  {[multiline |-> FALSE, text |-> Line(<<"/send_private", TokA, "bob", "hi">>)],
   [multiline |-> FALSE, text |-> Line(<<"/get_private_messages", TokA, "bob">>)],
   [multiline |-> TRUE, text |-> Line(<<"/get_private_messages", TokA, "bob">>)],
   [multiline |-> FALSE, text |-> Line(<<"/validate_session", TokA>>)]}

\* one message per run is sent, which leaves the table room for a resend
IsClientSend(text) == split_whitespace(text)[1] = "/send_private"

ClientStep ==
  \/ SvcWrite
  \/ SvcReadFirst
  \/ \E in_time \in BOOLEAN : SvcReadMore(in_time)

ServerStep ==
  \E c \in Conns : ReadLine(c) \/ Dispatch(c) \/ ReadEof(c)

NextClient ==
  \/ \E q \in ClientCommands :
       /\ IsClientSend(q.text) => msgs = << >> /\ \A c \in Conns : inq[c] = << >> /\ pc[c] # "dispatch"
       /\ SendCommand(q.multiline, q.text)
  \/ ClientStep
  \/ ConnDrop
  \/ ServerStep

SpecClient == InitChat /\ [][NextClient]_vars

\* the same, with the service's task and the server's tasks scheduled
SpecClientLive ==
  InitChat /\ [][NextClient]_vars /\ WF_vars(ClientStep) /\ WF_vars(ServerStep)

(* The polling scenario: a group chat is opened (and opened again), left,  *)
(* written to, while the fetch tasks end and their messages are handled.   *)
NextPoll ==
  \/ StartGroupMessagePolling
  \/ StopGroupMessagePolling
  \/ FetchDone
  \/ NewGroupMessagesReceived
  \/ SendGroupMessage
  \/ TriggerImmediateGroupRefresh

SpecPoll == InitChat /\ [][NextPoll]_vars

(* The accept scenario: two peers connect; each is accepted, may or        *)
(* may not get through the TLS handshake, writes requests, has them         *)
(* answered and closes, at its own pace or not at all.                      *)
NextAccept ==
  \/ \E c \in Conns, ok \in BOOLEAN : Accept(c, ok)
  \/ \E c \in Conns, ok \in BOOLEAN : TlsAccept(c, ok)
  \/ \E c \in listener.tasks :
       \/ ClientWrite(c, Line(<<"/validate_session", TokA>>), MaxPending, MaxAcceptReqs)
       \/ ClientClose(c)
       \/ ReadLine(c)
       \/ ReadEof(c)
       \/ Dispatch(c)

SpecAccept == InitChat /\ [][NextAccept]_vars

(* The store scenario: alice and bob send private and group messages, some *)
(* of them words that are JSON texts and one with two spaces between its    *)
(* words, read and delete them from either side; in between the server is   *)
(* restarted with encryption switched on or off or with another master key. *)
StoreLines ==
  {Line(<<"/send_private", TokA, "bob", t>>) : t \in {"hi", "42"}}
  \cup {Line(<<"/send", TokA, "g1", t>>) : t \in {"hi", "42"}}
  \cup {Line(<<"/private", TokB, "alice", "yo">>),
        <<"/send_private", SP, TokA, SP, "bob", SP, "hi", "  ", "yo", NL>>,
        Line(<<"/get_private_messages", TokA, "bob">>),
        Line(<<"/get_private_messages", TokB, "alice">>),
        Line(<<"/get_group_messages", TokA, "g1">>),
        Line(<<"/delete_private_messages", TokA, "bob">>),
        Line(<<"/delete_private_messages", TokB, "alice">>),
        Line(<<"/delete_private_messages", TokA, NoSuchUser>>),
        Line(<<"/delete_group_messages", TokA, "g1">>),
        Line(<<"/delete_group_messages", TokB, "g1">>)}

NextStore ==
  \/ \E l \in StoreLines : ClientWrite("c1", l, OnePending, MaxStoreReqs)
  \/ ReadLine("c1")
  \/ Dispatch("c1")
  \/ InsertStep("c1")
  \/ \E e \in BOOLEAN, k \in {"k1", "k2"} : Restart(e, k)

SpecStore == InitChat /\ [][NextStore]_vars

(* ============================ properties =============================== *)
\* a response flushed in this step on connection c
Flushed(c) == pc[c] \in {"dispatch", "insert"} /\ pc'[c] = "read"

\* the commands of the dispatcher whose first argument is a session token,
\* with the number of arguments their arm accepts
TokenBearing(q) ==
  LET n == Len(q.args) IN
  \/ q.cmd \in {"/list_friends", "/received_friend_requests", "/sent_friend_requests",
                "/logout", "/validate_session", "/my_groups", "/my_invites"} /\ n = 1
  \/ q.cmd \in {"/accept_friend_request", "/reject_friend_request", "/create_group",
                "/accept_invite", "/reject_invite", "/join_group", "/leave_group",
                "/get_group_messages", "/get_private_messages",
                "/delete_group_messages", "/delete_private_messages"} /\ n = 2
  \/ q.cmd = "/invite" /\ n = 3
  \/ q.cmd = "/send_friend_request" /\ n >= 2
  \/ q.cmd \in {"/send", "/send_private", "/private"} /\ n >= 3

\* one request of every kind that carries the token t
ProbeCommands(t) ==
  {[cmd |-> "/validate_session", args |-> <<t>>],
   [cmd |-> "/logout", args |-> <<t>>],
   [cmd |-> "/list_friends", args |-> <<t>>],
   [cmd |-> "/my_groups", args |-> <<t>>],
   [cmd |-> "/join_group", args |-> <<t, "g1">>],
   [cmd |-> "/leave_group", args |-> <<t, "g1">>],
   [cmd |-> "/send", args |-> <<t, "g1", "hi">>],
   [cmd |-> "/send_private", args |-> <<t, "bob", "hi">>],
   [cmd |-> "/get_group_messages", args |-> <<t, "g1">>],
   [cmd |-> "/get_private_messages", args |-> <<t, "bob">>],
   [cmd |-> "/delete_group_messages", args |-> <<t, "g1">>],
   [cmd |-> "/delete_private_messages", args |-> <<t, "bob">>]}

\* the request is refused for its session and changes no table
RefusedForSession(r) ==
  /\ r.resp \in {invalid_session, <<"ERR: Invalid session">>}
  /\ ~r.cont.go
  /\ <<r.sessions, r.issued, r.members, r.msgs, r.next_id>> = storeVars

\* C1: once /logout has answered OK for a token, that token validates to
\* None from then on: auth::validate_session and the WebSocket
\* authenticate_session return None for it, and every command that carries
\* it is refused for its session.
C1_LogoutRevokes ==
  \A t \in logged_out :
    /\ validate_session(t) = None
    /\ authenticate_session(t) = None
    /\ \A q \in ProbeCommands(t) : \A tb \in TieBreaks :
         RefusedForSession(handle_command(q.cmd, q.args, tb))

\* C1 witness: a token was logged out, a later /validate_session with it
\* was answered with the session error, and a WebSocket auth with it was
\* turned down
C1_Witness ==
  \E t \in logged_out :
    /\ pc["c1"] = "read"
    /\ cur["c1"].cmd = "/validate_session" /\ cur["c1"].args = <<t>>
    /\ wire["c1"] = invalid_session \o <<NL>>
    /\ ws_token = t /\ ws_result = None

\* the session row that makes a token valid now, if there is one
LiveRows(t) == {s \in sessions : s.session_token = t /\ s.expires_at > now}

\* C2 (as claimed): for every token, authenticate_session returns
\* Some(user_id of the row) iff a session row with that token exists and
\* its expires_at is strictly greater than now, and None otherwise.
C2_AuthIffLiveRow ==
  \A t \in TokenInputs :
    authenticate_session(t) =
      IF LiveRows(t) # {} THEN Some((CHOOSE s \in LiveRows(t) : TRUE).user_id)
      ELSE None

\* the positions, in order, of the non-blank lines among the first n lines
\* the peer wrote on c
RECURSIVE NonBlank(_, _)
NonBlank(c, n) ==
  IF n = 0 THEN << >>
  ELSE IF sent_blank[c][n] THEN NonBlank(c, n - 1)
  ELSE Append(NonBlank(c, n - 1), n)

\* C4: on every connection the responses written so far answer exactly the
\* non-blank lines read so far, one each and in the order of the requests,
\* a blank line gets none, and at most the last line read is still
\* unanswered (the next line is read only after the response is flushed).
C4_OneResponsePerLineInOrder ==
  \A c \in Conns :
    LET nb == NonBlank(c, nread[c]) IN
    IF pc[c] \in {"dispatch", "insert"}
    THEN /\ nb # << >>
         /\ cur[c].tag = nb[Len(nb)]
         /\ resp_tags[c] = SubSeq(nb, 1, Len(nb) - 1)
    ELSE resp_tags[c] = nb

\* C4 witness: the peer wrote a request, a blank line and a request; all
\* three were read and the first and the third were answered, in that order
C4_Witness ==
  /\ sent_blank["c1"] = <<FALSE, TRUE, FALSE>>
  /\ nread["c1"] = 3
  /\ resp_tags["c1"] = <<1, 3>>

\* C6 (as claimed): every command that carries a token which fails
\* validation is answered with exactly "ERR: Invalid or expired session".
C6_UniformSessionError ==
  [][\A c \in Conns :
       (Flushed(c) /\ TokenBearing(cur[c])
          /\ validate_session(cur[c].args[1]) = None)
       => wire'[c] = invalid_session \o <<NL>>]_vars

(* ------------------------- the message reads --------------------------- *)
IsGroupRead(q) == q.cmd = "/get_group_messages" /\ Len(q.args) = 2
IsPrivateRead(q) == q.cmd = "/get_private_messages" /\ Len(q.args) = 2

MessagesHeader == <<"OK: Messages:">>

\* the stored rows of a chat
RowsOfChat(chat_id) == {i \in 1..Len(msgs) : msgs[i].chat_id = chat_id}

\* the chat a read is about, for a caller with a valid session
ChatOfRead(q) ==
  LET u == validate_session(q.args[1]).val IN
  IF IsGroupRead(q) THEN <<"group:", q.args[2]>>
  ELSE LET p == (CHOOSE x \in Users : Username(x) = q.args[2]) IN
       IF IdRank(u) <= IdRank(p) THEN <<"private:", u, "-", p>>
       ELSE <<"private:", p, "-", u>>

\* the content lines of a response on the wire: the non-empty lines that
\* follow the header of an OK response
ContentLines(bytes) ==
  LET L == WireLines(bytes) IN
  IF L = << >> \/ L[1] # MessagesHeader THEN << >>
  ELSE SelectSeq(Tail(L), LAMBDA l : l # << >>)

\* C3 (as claimed): an OK response to a read is, on the wire, the header
\* line, one content line per stored message of the chat, and then one
\* empty line, for every batch size.
C3_BatchEndsWithEmptyLine ==
  [][\A c \in Conns :
       (Flushed(c) /\ (IsGroupRead(cur[c]) \/ IsPrivateRead(cur[c]))
          /\ wire'[c][1] = "OK: Messages:")
       => LET L == WireLines(wire'[c])
              k == Cardinality(RowsOfChat(ChatOfRead(cur[c])))
          IN /\ wire'[c][Len(wire'[c])] = NL
             /\ Len(L) = k + 2
             /\ L[1] = MessagesHeader
             /\ \A i \in 2..(k + 1) : L[i] # << >>
             /\ L[k + 2] = << >>]_vars

\* C5 (as claimed): a /send_group_message or /send_private_message line
\* with a token and at least two more arguments, as the client writes it,
\* is never answered with "ERR: Unknown or invalid command".
C5_SendCommandsRecognised ==
  [][\A c \in Conns :
       (Flushed(c) /\ cur[c].cmd \in {"/send_group_message", "/send_private_message"}
          /\ Len(cur[c].args) >= 3)
       => wire'[c] # unknown_command \o <<NL>>]_vars

\* C7: every group row is inserted by a sender who is a member of the group
\* at the moment of the insert, under every interleaving of a group send
\* with a leave of the same user
C7_SenderMemberAtInsert ==
  [][\A i \in 1..Len(msgs') :
       \A g \in Groups :
         (i > Len(msgs) /\ msgs'[i].chat_id = group_chat_id(g))
           => is_member(g, msgs'[i].sender_id)]_vars

\* line is how a read shows row r with the sender shown as name: its
\* text is the row's plaintext, the placeholder or the stored column
ShowsRow(line, r, name) ==
  \E text \in {r.message.text, <<"[DECRYPTION FAILED]">>, raw_column(r.message)} :
    line = <<"[", ToString(r.sent_at), "] ", name, ": ">> \o text

C9_NotAMemberFirst ==
  [][\A c \in Conns :
       (/\ Flushed(c)
        /\ \/ IsGroupRead(cur[c])
           \/ cur[c].cmd \in {"/send_group_message", "/send"} /\ Len(cur[c].args) >= 3
        /\ validate_session(cur[c].args[1]) # None
        /\ <<cur[c].args[2], validate_session(cur[c].args[1]).val>> \notin members)
       => wire'[c] = <<"ERR: Not a group member", NL>>]_vars

\* C10 (as claimed): a read returns the messages of the chat in the order
\* (sent_at ASC, id ASC): the response is the one the read gives when rows
\* of the same second come in the order of their ids.
C10_ReadOrderBySentAtThenId ==
  [][\A c \in Conns :
       (Flushed(c) /\ (IsGroupRead(cur[c]) \/ IsPrivateRead(cur[c])))
       => wire'[c] =
            handle_command(cur[c].cmd, cur[c].args,
                           [i \in 1..Len(msgs) |-> i]).resp \o <<NL>>]_vars

\* C11 (as claimed): on every /get_group_messages by a member, each stored
\* message of the group is shown with its original plaintext, also when
\* users joined or left the group between the write and the read.
C11_GroupReadDecrypts ==
  [][\A c \in Conns :
       (Flushed(c) /\ IsGroupRead(cur[c]) /\ wire'[c][1] = "OK: Messages:")
       => LET L == ContentLines(wire'[c]) IN
          \A i \in 1..Len(L) : \E j \in RowsOfChat(ChatOfRead(cur[c])) :
            L[i] = message_line(msgs[j].sent_at, Username(msgs[j].sender_id),
                                msgs[j].message.text)]_vars

(* --------------------------- the real-time hub ------------------------- *)
\* the receive task of s handles a data frame in this step
ReceivesFrame(s) ==
  recv_running[s] /\ ws_in[s] # << >> /\ ws_in'[s] = Tail(ws_in[s])

\* C12 (as claimed): a message for which the client's send returned OK is
\* persisted, whichever transport carried it: when the server handles the
\* frame of a send that went over the WebSocket, it inserts the row of that
\* message into encrypted_messages.
C12_AckedSendPersisted ==
  [][\A s \in Sockets :
       (ReceivesFrame(s)
          /\ Head(ws_in[s]).message_type \in {"PrivateMessage", "GroupMessage"})
       => /\ Len(msgs') = Len(msgs) + 1
          /\ msgs'[Len(msgs')].sender_id = Head(ws_in[s]).sender]_vars

\* C13 (as claimed): when a private send is answered "OK: Message sent"
\* and the recipient holds a registered WebSocket connection, the server
\* has published a PrivateMessage event of that sender on the
\* channel private:<recipient_id>.
C13_PrivateSendPublishes ==
  [][\A c \in Conns :
       (Flushed(c)
          /\ cur[c].cmd \in {"/send_private", "/private", "/send_private_message"}
          /\ wire'[c] = <<"OK: Message sent", NL>>
          /\ connection_of_user(user_by_name(cur[c].args[2]).val) # {})
       => \E p \in pub_log' :
            /\ p.channel = <<"private:", user_by_name(cur[c].args[2]).val>>
            /\ p.msg.message_type = "PrivateMessage"
            /\ p.msg.sender = validate_session(cur[c].args[1]).val]_vars

\* C14 (as claimed): a PrivateMessage or GroupMessage that the node
\* publishes on the channel private:<id> or group:<id> of a user or of a
\* group is received by the Redis subscriber.
C14_PublishedIsReceived ==
  [][\A p \in pub_log' \ pub_log :
       (p.msg.message_type \in {"PrivateMessage", "GroupMessage"}
          /\ p.msg.target \in Users \cup Groups)
       => \E i \in 1..Len(sub_inbox') : sub_inbox'[i] = p]_vars

\* the handler of s leaves AwaitingAuth in this step
LeavesAwaitingAuth(s) == ws_state[s] = "AwaitingAuth" /\ ws_state'[s] # "AwaitingAuth"

\* C15 (as claimed): a WebSocket becomes Authenticated only on an auth
\* message with a valid session token; on a timeout, a non-text frame,
\* invalid JSON, a wrong message_type or an invalid session the failure
\* auth_response is sent, the handler returns and the connection is in
\* neither registry.
C15_AuthStateMachine ==
  [][\A s \in Sockets :
       LeavesAwaitingAuth(s) =>
         LET ev == auth_event'[s] IN
         IF ev.kind = "auth" /\ LiveRows(ev.session_token) # {}
         THEN ws_state'[s] = "Authenticated"
         ELSE /\ ws_state'[s] = "Terminated"
              /\ ev.kind \in {"timeout", "binary", "close", "bad_json", "wrong_type",
                              "auth"}
                   => auth_response'[s] = "failure"
              /\ \A c \in connections' : c.client_id # s
              /\ \A uc \in user_connections' : uc[2] # s]_vars

\* C16 (as claimed): the connections table holds at most one connection
\* per user_id.
C16_SingleConnectionPerUser ==
  \A a, b \in connections : a.user_id = b.user_id => a = b

\* C17 (as claimed): once add_connection has returned for a WebSocket,
\* neither registry holds its client_id.
C17_ReturnedIsUnregistered ==
  \A s \in Sockets :
    (ws_state[s] = "Terminated" /\ auth_response[s] = "success")
    => /\ \A c \in connections : c.client_id # s
       /\ \A uc \in user_connections : uc[2] # s

\* the frame put on the outbound queue of s in this step, if one is
Enqueued(s) == Len(outq'[s]) > Len(outq[s])

\* C18 (as claimed): the Redis subscriber never enqueues a message on a
\* connection of the user who is the message's sender.
C18_SubscriberExcludesSender ==
  [][(sub_inbox # << >> /\ sub_inbox' = Tail(sub_inbox))
       => \A c \in connections :
            Enqueued(c.client_id) => c.user_id # Head(sub_inbox).msg.sender]_vars

\* C19 (as claimed): a GroupMessage is enqueued only on connections of
\* users who are members of its group at that moment.
C19_GroupFanOutToMembersOnly ==
  [][\A c \in connections :
       (Enqueued(c.client_id)
          /\ outq'[c.client_id][Len(outq'[c.client_id])].message_type = "GroupMessage")
       => is_member(outq'[c.client_id][Len(outq'[c.client_id])].target, c.user_id)]_vars

\* C20 (as claimed): a /send_private_message or /send_group_message whose
\* message is longer than max_message_length is answered "ERR: Message too
\* long (max N chars)" and stores nothing; one whose message is at most
\* max_message_length long is never answered so.
C20_LengthLimit ==
  [][\A c \in Conns :
       (Flushed(c) /\ cur[c].cmd \in {"/send_private_message", "/send_group_message"}
          /\ Len(cur[c].args) >= 3)
       => LET message == join(SubSeq(cur[c].args, 3, Len(cur[c].args)), SP) IN
          IF ByteLen(message) > max_message_length
          THEN wire'[c] = too_long_response \o <<NL>> /\ msgs' = msgs
          ELSE wire'[c] # too_long_response \o <<NL>>]_vars

\* C21 (as claimed): the checks of a send run in the order session,
\* recipient, length: a send with an invalid token is answered with the
\* invalid-session error, and a private send with a valid token to an
\* unknown recipient with "ERR: User not found", whatever the length of
\* the message.
C21_SendCheckOrder ==
  [][\A c \in Conns :
       (Flushed(c) /\ cur[c].cmd \in {"/send", "/send_private", "/private"}
          /\ Len(cur[c].args) >= 3)
       => IF validate_session(cur[c].args[1]) = None
          THEN wire'[c] \in {<<"ERR: Invalid session", NL>>, invalid_session \o <<NL>>}
          ELSE (cur[c].cmd # "/send" /\ user_by_name(cur[c].args[2]) = None)
               => wire'[c] = <<"ERR: User not found", NL>>]_vars

(* ------------------------ the stored messages -------------------------- *)
\* C22 (as claimed): a read returns one content line per stored row of the
\* chat, and a row whose envelope does not decrypt under the key of the
\* chat is shown with the text [DECRYPTION FAILED], never with the stored
\* envelope, in group reads and in private reads.
C22_FailedDecryptionPlaceholder ==
  [][\A c \in Conns :
       (Flushed(c) /\ (IsGroupRead(cur[c]) \/ IsPrivateRead(cur[c]))
          /\ wire'[c][1] = "OK: Messages:")
       => LET q == cur[c]
              L == ContentLines(wire'[c])
              rows == RowsOfChat(ChatOfRead(q))
              participants ==
                IF IsGroupRead(q) THEN group_members_of(q.args[2])
                ELSE {validate_session(q.args[1]).val, user_by_name(q.args[2]).val}
              shown(j, text) ==
                \E i \in 1..Len(L) :
                  L[i] = <<"[", ToString(msgs[j].sent_at), "] ",
                           Username(msgs[j].sender_id), ": ">> \o text
          IN /\ Len(L) = Cardinality(rows)
             /\ \A j \in rows :
                  (enable_encryption /\ msgs[j].message.kind = "envelope"
                     /\ msgs[j].message.key # <<participants, encryption_master_key>>)
                  => /\ shown(j, <<"[DECRYPTION FAILED]">>)
                     /\ ~shown(j, raw_column(msgs[j].message))]_vars

\* C23 (as claimed): with encryption enabled, a stored string that is not
\* the envelope object is returned unchanged by a read, also when it is a
\* JSON text of another shape.
C23_LegacyPlaintextUnchanged ==
  [][\A c \in Conns :
       (Flushed(c) /\ (IsGroupRead(cur[c]) \/ IsPrivateRead(cur[c]))
          /\ wire'[c][1] = "OK: Messages:" /\ enable_encryption)
       => LET L == ContentLines(wire'[c]) IN
          \A j \in RowsOfChat(ChatOfRead(cur[c])) :
            msgs[j].message.kind = "plain"
            => \E i \in 1..Len(L) :
                 L[i] = <<"[", ToString(msgs[j].sent_at), "] ",
                          Username(msgs[j].sender_id), ": ">> \o msgs[j].message.text]_vars

\* the stored rows of the private chat of u and p, under either order of
\* the two ids in the chat id
PairRows(u, p, table) ==
  {j \in 1..Len(table) :
     table[j].chat_id \in {<<"private:", u, "-", p>>, <<"private:", p, "-", u>>}}

\* C24: the private chat id does not depend on which of the two users is
\* the caller.  The rows of two distinct users u and p all carry one chat
\* id; a private send of u to p adds its row to them, a private read of
\* either with the other as peer shows every one of them, and a private
\* delete of either with the other as peer removes every one of them.
C24_PrivateChatSymmetric ==
  [][\A c \in Conns :
       LET q == cur[c]
           v == validate_session(q.args[1])
           to == user_by_name(q.args[2])
       IN (Flushed(c) /\ Len(q.args) >= 2
             /\ q.cmd \in {"/send_private", "/private", "/get_private_messages",
                           "/delete_private_messages"}
             /\ wire'[c][1] \in {"OK: Message sent", "OK: Messages:", "OK: Messages deleted"}
             /\ v.val # to.val)
          => LET u == v.val
                 p == to.val
                 L == ContentLines(wire'[c])
             IN /\ \A i, j \in PairRows(u, p, msgs') : msgs'[i].chat_id = msgs'[j].chat_id
                /\ q.cmd \in {"/send_private", "/private"}
                     => /\ Len(msgs') = Len(msgs) + 1
                        /\ Len(msgs') \in PairRows(u, p, msgs')
                        /\ msgs'[Len(msgs')].sender_id = u
                /\ q.cmd = "/get_private_messages"
                     => /\ Len(L) = Cardinality(PairRows(u, p, msgs))
                        /\ \A j \in PairRows(u, p, msgs) : \E i \in 1..Len(L) :
                             ShowsRow(L[i], msgs[j], Username(msgs[j].sender_id))
                /\ q.cmd = "/delete_private_messages"
                     => PairRows(u, p, msgs') = {}]_vars

\* C24 witness: alice has sent to bob and bob to alice, and bob's read
\* with peer alice has returned both messages
C24_Witness ==
  /\ pc["c1"] = "read"
  /\ cur["c1"].cmd = "/get_private_messages"
  /\ cur["c1"].args = <<TokB, "alice">>
  /\ Len(ContentLines(wire["c1"])) = 2
  /\ \E i, j \in PairRows("u1", "u2", msgs) :
       msgs[i].sender_id = "u1" /\ msgs[j].sender_id = "u2"

\* C25: a /delete_group_messages or /delete_private_messages answered
\* "OK: Messages deleted" removes every row of the targeted chat and leaves
\* the rows of every other chat as they were; a /delete_group_messages of a
\* caller who is not a member of the group and a /delete_private_messages
\* with a peer that does not exist leave the table as it was.
C25_DeleteFrame ==
  [][\A c \in Conns :
       LET q == cur[c]
           v == validate_session(q.args[1])
       IN (Flushed(c) /\ Len(q.args) = 2 /\ v # None
             /\ q.cmd \in {"/delete_group_messages", "/delete_private_messages"})
          => LET u == v.val
                 peers == {x \in Users : Username(x) = q.args[2]}
                 target ==
                   IF q.cmd = "/delete_group_messages" THEN <<"group:", q.args[2]>>
                   ELSE LET p == CHOOSE x \in peers : TRUE IN
                        IF IdRank(u) <= IdRank(p) THEN <<"private:", u, "-", p>>
                        ELSE <<"private:", p, "-", u>>
             IN /\ wire'[c] = <<"OK: Messages deleted", NL>>
                     => msgs' = SelectSeq(msgs, LAMBDA r : r.chat_id # target)
                /\ (q.cmd = "/delete_group_messages" /\ <<q.args[2], u>> \notin members)
                     => msgs' = msgs
                /\ (q.cmd = "/delete_private_messages" /\ peers = {})
                     => msgs' = msgs]_vars

\* C25 witness: of two stored rows of two chats, a delete that was answered
\* OK has removed the one and left the other
C25_Witness ==
  /\ pc["c1"] = "read"
  /\ cur["c1"].cmd \in {"/delete_group_messages", "/delete_private_messages"}
  /\ wire["c1"] = <<"OK: Messages deleted", NL>>
  /\ next_id = 3
  /\ Len(msgs) = 1

\* C26 (as claimed): the text a send stores is, character for character,
\* the rest of the request line after its second argument, runs of
\* whitespace inside it included.
C26_MessageIsRestOfLine ==
  [][\A c \in Conns :
       (Flushed(c) /\ cur[c].cmd \in {"/send", "/send_private", "/private"}
          /\ wire'[c] = <<"OK: Message sent", NL>>)
       => LET line == cur[c].line
              k == CHOOSE i \in 1..Len(line) :
                     /\ ~IsWs(line[i])
                     /\ Cardinality({j \in 1..i : ~IsWs(line[j])}) = 3
          IN /\ Len(msgs') = Len(msgs) + 1
             /\ msgs'[Len(msgs')].message.text = trim(SubSeq(line, k + 1, Len(line)))]_vars

(* ------------------------- the background tasks ------------------------ *)
\* C27 (as claimed): the Redis subscriber never gives up, and the wait
\* before each consecutive retry is twice the wait before the one before
\* it, capped at 30 s.
C27_BridgeBackoff ==
  /\ redis_sub.pc \in {"connect", "listen", "sleep"}
  /\ \A n \in 2..Len(redis_sub.waits) :
       redis_sub.waits[n] = IF 2 * redis_sub.waits[n - 1] <= 30
                            THEN 2 * redis_sub.waits[n - 1] ELSE 30

\* C28: the client's retry_delay is always between 2 s and 30 s, and a
\* connect_with_auth call that starts with the retry_delay of a fresh
\* client, 2 s, sleeps 2, 4, 8 and 16 s between its attempts.
C28_ClientBackoff ==
  /\ 2 <= ws_client.retry_delay /\ ws_client.retry_delay <= 30
  /\ ws_client.start_delay = 2
       => /\ Len(ws_client.waits) <= 4
          /\ \A i \in 1..Len(ws_client.waits) : ws_client.waits[i] = 2 ^ i

\* C28 witness: a call made by a fresh client has failed five times and
\* slept four times in between
C28_Witness ==
  /\ ws_client.start_delay = 2
  /\ ws_client.waits = <<2, 4, 8, 16>>
  /\ ws_client.connection_retry_attempts = 5
  /\ ws_client.pc = "idle"

C30_ConnectionsIndependent ==
  /\ listener.running
  /\ \A c \in listener.tasks :
       /\ (pc[c] = "read" /\ inq[c] # << >>) => ENABLED ReadLine(c)
       /\ pc[c] = "dispatch" => ENABLED Dispatch(c)

(* ------------------------- the displayed sender ------------------------- *)
\* C31: in the response to a read, the name in front of a message is, for a
\* private chat, the caller's own username on the rows the caller sent and
\* the peer's username on the others, and for a group the username of the
\* row's sender: for every name, as many content lines carry it as the chat
\* has rows that are to be shown with it.
C31_DisplayedSender ==
  [][\A c \in Conns :
       (Flushed(c) /\ (IsGroupRead(cur[c]) \/ IsPrivateRead(cur[c]))
          /\ wire'[c][1] = "OK: Messages:")
       => LET q == cur[c]
              u == validate_session(q.args[1]).val
              L == ContentLines(wire'[c])
              rows == RowsOfChat(ChatOfRead(q))
              display_sender(j) ==
                IF IsGroupRead(q) THEN Username(msgs[j].sender_id)
                ELSE IF msgs[j].sender_id = u THEN Username(u)
                ELSE q.args[2]
          IN /\ Len(L) = Cardinality(rows)
             /\ \A n \in {Username(x) : x \in Users} :
                  Cardinality({i \in 1..Len(L) : L[i][4] = n})
                    = Cardinality({j \in rows : display_sender(j) = n})]_vars

\* C31 witness: alice's private read with peer bob has returned a line of
\* her own and a line of bob's
C31_Witness ==
  /\ pc["c1"] = "read"
  /\ cur["c1"].cmd = "/get_private_messages"
  /\ cur["c1"].args = <<TokA, "bob">>
  /\ \E i, j \in 1..Len(ContentLines(wire["c1"])) :
       /\ ContentLines(wire["c1"])[i][4] = "alice"
       /\ ContentLines(wire["c1"])[j][4] = "bob"

(* ------------------------- the registry mutexes ------------------------- *)
\* the mutex task t is suspended on, "none" if it is not in a lock().await
WaitsFor(t) ==
  LET order == lock_order(hub_locks.job[t].op) IN
  IF hub_locks.job[t].op # "none" /\ hub_locks.held[t] < Len(order)
  THEN order[hub_locks.held[t] + 1] ELSE "none"

\* C32 (as claimed): a task that takes both registry mutexes takes
\* connections first, and no two tasks ever each hold the mutex the other
\* is suspended on.
C32_NoLockCycle ==
  /\ \A t \in LockTasks :
       (hub_locks.held[t] = 1 /\ Len(lock_order(hub_locks.job[t].op)) = 2)
       => hub_locks.owner["connections"] = t
  /\ ~ \E t1, t2 \in LockTasks :
         /\ t1 # t2
         /\ WaitsFor(t1) # "none" /\ hub_locks.owner[WaitsFor(t1)] = t2
         /\ WaitsFor(t2) # "none" /\ hub_locks.owner[WaitsFor(t2)] = t1

\* C33 (as claimed): user_connections has an entry for a user exactly when
\* connections holds a connection of that user, and the entry names a
\* connection of that user that is in connections; so a user with a
\* registered connection is always reachable through send_to_user.
C33_RegistriesConsistent ==
  /\ \A u \in Users :
       (\E uc \in user_connections : uc[1] = u)
       <=> (\E c \in connections : c.user_id = u)
  /\ \A uc \in user_connections :
       \E c \in connections : c.client_id = uc[2] /\ c.user_id = uc[1]

(* ---------------------- the sender of a relayed frame ------------------- *)
\* C34 (as claimed): every frame the receive task of a connection relays
\* (to the local broadcaster and, with PUBLISH, to Redis) has as its sender
\* the user_id the connection authenticated as.
C34_RelayedSenderIsAuthenticated ==
  [][\A s \in Sockets :
       (recv_running[s] /\ ws_in[s] # << >> /\ ws_in'[s] = Tail(ws_in[s]))
       => \A c \in connections :
            c.client_id = s
            => \A p \in pub_log' \ pub_log : p.msg.sender = c.user_id]_vars

(* ------------------------- the client's ChatService --------------------- *)
\* C35 (as claimed): the string delivered to the caller of the k-th command
\* is the server's response to the k-th command, and is made of lines of
\* that response alone.
C35_ResponsePairing ==
  \A i \in 1..Len(chat_service.results) :
    LET r == chat_service.results[i] IN
    ~r.err => /\ r.from = {r.k}
              /\ r.resp \in {trim(w) : w \in chat_service.answers[r.k]}

\* the number of times the server has executed the k-th command of the
\* service: the answered lines, over all connections, that carried it
Executions(k) ==
  Cardinality({ci \in Conns \X (1..MaxClientCmds + 1) :
                 /\ ci[2] <= Len(resp_tags[ci[1]])
                 /\ chat_service.sent[ci[1]][resp_tags[ci[1]][ci[2]]] = k})

\* C36 (as claimed): the server executes the command of one call of
\* send_command at most once, also when the service reconnects and resends.
C36_AtMostOnce ==
  \A k \in 1..MaxClientCmds : Executions(k) <= 1

\* C37 (as claimed): every command the task has taken from the queue gets
\* exactly one result, after which the task is back in rx.recv(): the
\* reconnect-and-resend loop of a command comes to an end.
C37_EveryCallReturns ==
  /\ [](chat_service.pc = "recv"
          => Len(chat_service.results) = chat_service.issued)
  /\ [](chat_service.pc # "recv" => <>(chat_service.pc = "recv"))

(* ----------------------- the client's connect_with_auth ----------------- *)
\* C38: a connect_with_auth call makes at most max_retry_attempts (5)
\* attempts and at most 4 sleeps; when it has returned, it has returned Ok
\* exactly if one of its attempts succeeded, and then
\* connection_retry_attempts is 0; otherwise it made all 5 attempts,
\* returned the error of the last one, and connection_retry_attempts is 5.
C38_ConnectWithAuthReturns ==
  /\ ws_client.max_retry_attempts = 5
  /\ Len(ws_client.outcomes) <= ws_client.max_retry_attempts
  /\ Len(ws_client.waits) <= 4
  /\ ws_client.result.returned
       => /\ ws_client.pc = "idle"
          /\ ws_client.result.ok
               <=> \E i \in 1..Len(ws_client.outcomes) : ws_client.outcomes[i]
          /\ ws_client.result.ok => ws_client.connection_retry_attempts = 0
          /\ ~ws_client.result.ok
               => /\ Len(ws_client.outcomes) = ws_client.max_retry_attempts
                  /\ ws_client.result.err = Len(ws_client.outcomes)
                  /\ ws_client.connection_retry_attempts = ws_client.max_retry_attempts
  /\ ~ws_client.result.returned /\ ws_client.outcomes # << >>
       => ws_client.pc = "try"

\* C38 witness: a call has returned Ok at its third attempt, after two
\* failures and two sleeps
C38_Witness ==
  /\ ws_client.result = ResultOk
  /\ ws_client.outcomes = <<FALSE, FALSE, TRUE>>
  /\ Len(ws_client.waits) = 2
  /\ ws_client.connection_retry_attempts = 0

(* ------------------------ the client's polling -------------------------- *)
\* C39: polling of a chat is one chain that stops on request: while
\* polling is active at most one fetch of the chat is outstanding or
\* scheduled (a TriggerImmediateGroupRefresh does not add one), and a
\* NewGroupMessagesReceived handled while polling is stopped neither
\* changes the cached chat nor schedules a fetch.
C39_SinglePollingChain ==
  [][/\ polling'.group_polling_active => polling'.fetches <= 1
     /\ (/\ Len(polling'.mailbox) < Len(polling.mailbox)
         /\ Head(polling.mailbox).msg = "NewGroupMessagesReceived"
         /\ ~polling.group_polling_active)
          => /\ polling'.group_chats = polling.group_chats
             /\ polling'.fetches = polling.fetches]_vars

(* ------------------- the frame of encrypted_messages -------------------- *)
\* the first piece of the ERR: responses of the server
ErrHeads ==
  {"ERR: Message too long (max ", "ERR: Invalid session", "ERR: Group not found",
   "ERR: Not a group member", "ERR: User not found", "ERR: Invalid credentials",
   invalid_session[1], unknown_command[1]}

\* the chat a send command addresses, the caller being u
AddressedChat(q, u) ==
  IF q.cmd = "/send" THEN group_chat_id(q.args[2])
  ELSE private_chat_id(sorted_ids(u, user_by_name(q.args[2]).val))

\* C40: a command answered with an ERR: line leaves encrypted_messages as
\* it was; a send answered "OK: Message sent" appends exactly one row, of
\* the addressed chat and with the caller as sender, and leaves every other
\* row as it was; the table grows only in such a send and shrinks only in a
\* delete command answered "OK: Messages deleted".
C40_MessageTableFrame ==
  [][/\ \A c \in Conns :
          Flushed(c) =>
            LET q == cur[c]
                head == wire'[c][1]
            IN /\ head \in ErrHeads => msgs' = msgs
               /\ (q.cmd \in {"/send", "/send_private", "/private"}
                     /\ head = "OK: Message sent")
                    => /\ Len(msgs') = Len(msgs) + 1
                       /\ SubSeq(msgs', 1, Len(msgs)) = msgs
                       /\ \E s \in sessions :
                            /\ s.session_token = q.args[1]
                            /\ msgs'[Len(msgs')].sender_id = s.user_id
                            /\ msgs'[Len(msgs')].chat_id = AddressedChat(q, s.user_id)
     /\ msgs' # msgs
          => \E c \in Conns :
               /\ Flushed(c)
               /\ IF Len(msgs') > Len(msgs)
                  THEN /\ cur[c].cmd \in {"/send", "/send_private", "/private"}
                       /\ wire'[c][1] = "OK: Message sent"
                  ELSE /\ cur[c].cmd \in {"/delete_group_messages",
                                          "/delete_private_messages"}
                       /\ wire'[c][1] = "OK: Messages deleted"
                       /\ Len(msgs') < Len(msgs)]_vars

\* C40 witness: after a group message of alice was stored, her private send
\* to bob has been answered OK and has added the one row of their chat
C40_Witness ==
  /\ pc["c1"] = "read"
  /\ cur["c1"].cmd = "/send_private"
  /\ wire["c1"] = <<"OK: Message sent", NL>>
  /\ Len(msgs) = 2
  /\ msgs[1].chat_id = group_chat_id("g1")
  /\ msgs[2].chat_id = private_chat_id(<<"u1", "u2">>)
  /\ msgs[2].sender_id = "u1"

====
